---------------------------- MODULE Spec2Model ----------------------------
(***************************************************************************)
(* Grating-position control of the qudi spectrometer modules: the FHR1000  *)
(* (ASCII, query-code style), HR640 (binary frames) and i300 (ASCII,       *)
(* verb-suffix style) hardware drivers and the HR640 logic adapter.        *)
(*                                                                         *)
(* Wavelengths and positions are integers in thousandths of a nanometre    *)
(* (500.004 nm is 500004); slit positions are integer steps.               *)
(***************************************************************************)
EXTENDS Integers, Sequences, FiniteSets, TLC

VARIABLES
    \* ---- Fhr1000 driver (fhr1000_spectrometer.py) ----
    f_pc,        \* position of the driver thread inside the running call
    f_call,      \* the driver method called from outside ("none" when idle)
    f_arg,       \* its argument: wavelength_nm or requested_slit_steps
    f_read,      \* value returned by read_position_nm() in move_to_nm (-1: not read)
    f_cur,       \* current_position_nm of move_to_nm, current_slit_um of
                 \* move_slit_absolute_um (-1: not read)
    f_log,       \* the warnings logged during this call
    f_error,     \* the exception this call raised ("none")
    f_owed,      \* a command was written and its acknowledgement not yet read
    f_todo,      \* the busy commands the call still has to run, in order
    f_moves,     \* the move commands (Z61 / k) written during this call
    f_polls,     \* status queries 'E' written during this call (saturates)
    f_answer,    \* second byte of the latest status reply of this call (-1: none)
    fd_pos,      \* device: grating position
    fd_slit,     \* device: slit position in steps
    fd_busy,     \* device: status queries it will still answer busy
    fd_stuck,    \* device: answers busy to every status query
    \* ---- Hr640 driver (hr640_spectrometer.py) and Hr640Logic (hr640_logic.py) ----
    h_pc,        \* position of the thread inside the running call
    h_call,      \* the function called from outside ("none" when idle)
    h_arg,       \* its argument: target_nm / wavelength_nm
    h_script,    \* the statements the function still has to run, in order
    h_op,        \* the driver method whose frame is being exchanged
    h_out,       \* bytes of the current frame still to be written
    h_sent,      \* bytes of the current frame written so far
    h_calls,     \* driver methods entered during this call, with arguments
    h_gos,       \* device target at each go frame of this call
    h_polls,     \* status frames written during this call (saturates)
    h_answer,    \* read[4] of the latest status reply of this call (-1: none)
    h_position_now,  \* position_now of Hr640.move_to_nm (-1: not read)
    h_target0,   \* device target register when the call was entered
    h_abs0,      \* absolute_position when the call was entered
    h_prev,      \* the call that returned last, with its argument
    h_error,     \* the exception this call raised ("none")
    h_rx,        \* bytes in the receive buffer of the handle
    h_owed,      \* a frame was written and no read_bytes has followed it yet
    h_gap,       \* the driver has slept since its last write_raw or read_bytes
    absolute_position,  \* Hr640Logic.absolute_position
    hd_position, \* device: absolute position register
    hd_target,   \* device: target register
    hd_busy,     \* device: status queries it will still answer busy
    hd_stuck,    \* device: answers busy to every status query
    cal_c0,      \* coefficient c0 of the calibration file, in angstrom
    \* ---- I300 driver (i300_spectrometer.py) ----
    i_pc,        \* position of the driver thread inside the running call
    i_call,      \* the driver method called from outside ("none" when idle)
    i_arg,       \* its argument: wavelength_nm
    i_script,    \* the statements the method still has to run, in order
    i_log,       \* the commands written to the device during this call
    i_timeout,   \* _spectrometer_handle.timeout, in ms
    id_pos,      \* device: grating position
    \* ---- Hr640Gui (hr640_gui.py) and the position file ----
    pos_file,    \* second line of the position file, in thousandths of an angstrom
    box_abs,     \* value of absolutePositionBox
    g_handler,   \* the GUI handler that is inside Hr640Logic.move_to_nm ("none")
    g_emitted,   \* sigLoadPosition was emitted and its slot has not run yet
    \* ---- activation and deactivation of the drivers ----
    handle,      \* _spectrometer_handle of each driver: "None", "open", "closed"
    mstate,      \* "new", "started" (on_activate was called), "stopped"
    port_opens,  \* whether open_resource succeeds for the driver's port
    warned,      \* connect() of the driver has logged its warning
    disc,        \* how disconnect() of the driver ended ("none": not called)
    autocal,     \* ConfigOption autocalibrate_at_start of Fhr1000
    \* ---- threads inside Hr640Logic calls ----
    t_pc,        \* of each thread: "idle", "next", "write", "read"
    t_call,      \* the Hr640Logic method the thread is in ("none")
    t_script,    \* its statements still to run
    t_op,        \* the Hr640 method it is in ("none")
    t_out,       \* bytes of that method's frame still to write
    t_flight,    \* it has written a byte of a frame and not yet read the reply
    \* ---- Hr640Logic and its calibration file ----
    lg_state,    \* "new", "active" (on_activate has run)
    coeffs,      \* Hr640Logic.coeffs
    cal_file,    \* the tokens of lines 5-8 of the calibration file, in order
    \* ---- conversions applied on their own ----
    p_fn,        \* the conversion applied last ("none" at the start)
    p_in,        \* its input
    p_out,       \* its result
    \* ---- Fhr1000Logic (fhr1000_logic.py) and I300Logic (i300_logic.py) ----
    fl_pc,       \* Fhr1000Logic.move_grating_nm: "idle", "driver", "ret"
    fl_cur,      \* Fhr1000Logic._current_wavelength_nm
    fl_moving,   \* the grating was moving when fl_cur was read
    il_pc,       \* I300Logic.move_grating_nm: "idle", "driver", "ret"
    il_cur,      \* I300Logic._current_wavelength_nm
    \* ---- CCDLogic (ccd_logic.py) and TemperatureLogic (temperature_logic.py) ----
    lp_stop,     \* stopRequest of each logic
    lp_pending,  \* sigRepeat emissions queued for the loop slot of each logic
    lp_acq,      \* acquisitions since the last start: 0, then 1 and 2 in turn
    lp_asked,    \* the stop method was called since the last start
    lp_exit,     \* how the loop of each logic returned last
    cc_locked,   \* module_state of CCDLogic is 'locked'
    tm_last      \* the user starts the temperature loop no more

fvars == <<f_pc, f_call, f_arg, f_read, f_cur, f_log, f_error, f_todo, f_moves, f_polls,
           f_answer, f_owed, fd_pos, fd_slit, fd_busy, fd_stuck>>

hvars == <<h_pc, h_call, h_arg, h_script, h_op, h_out, h_sent, h_calls,
           h_gos, h_polls, h_answer, h_position_now, h_target0, h_abs0, h_prev,
           h_error, h_rx, h_owed, h_gap, absolute_position, hd_position,
           hd_target, hd_busy, hd_stuck, cal_c0>>

ivars == <<i_pc, i_call, i_arg, i_script, i_log, i_timeout, id_pos>>

gvars == <<pos_file, box_abs, g_handler, g_emitted>>

pvars == <<p_fn, p_in, p_out>>
cvars == <<handle, mstate, port_opens, warned, disc, autocal>>
\* hvars but absolute_position
hrest == <<h_pc, h_call, h_arg, h_script, h_op, h_out, h_sent, h_calls,
           h_gos, h_polls, h_answer, h_position_now, h_target0, h_abs0,
           h_prev, h_error, h_rx, h_owed, h_gap, hd_position, hd_target,
           hd_busy, hd_stuck, cal_c0>>
hio == <<h_rx, h_owed, h_gap>>
lvars == <<lg_state, coeffs, cal_file>>
tvars == <<t_pc, t_call, t_script, t_op, t_out, t_flight>>
wvars == <<fl_pc, fl_cur, fl_moving, il_pc, il_cur>>
qvars == <<lp_stop, lp_pending, lp_acq, lp_asked, lp_exit, cc_locked, tm_last>>

vars == <<fvars, hvars, ivars, gvars, pvars, cvars, lvars, tvars, wvars, qvars>>

\* the variables of the other subsystems
notF == <<hvars, ivars, gvars, pvars, cvars, lvars, tvars, wvars, qvars>>
notH == <<fvars, ivars, pvars, cvars, lvars, tvars, wvars, qvars>>
notI == <<fvars, hvars, gvars, pvars, cvars, lvars, tvars, wvars, qvars>>

(***************************************************************************)
(* Bounds and input sets                                                   *)
(***************************************************************************)
\* a moving device answers busy to at most MaxBusy status queries
MaxBusy == 2
\* the poll counters stop counting at MaxPolls (the loops themselves go on)
MaxPolls == 4
\* a driver method is entered with fewer than MaxStale bytes left in the
\* receive buffer
MaxStale == 1
\* start_temperature_measurement_loop is called with fewer than MaxChains
\* sigRepeat emissions waiting
MaxChains == 2

\* wavelengths asked of the Fhr1000, and positions the device starts at
FhrTargets == {500000, 500004, 505000}
FhrPositions == {500000, 500004, 510000}
\* relative slit moves asked directly, and slit positions the device starts at
FhrSlitMoves == {-500, 500}
FhrSlitStarts == {50}
\* the mechanical range of the slit: 0 .. 2000 um, 1 step = 2 um
FhrSlitMaxSteps == 1000
\* slit widths asked of move_slit_absolute_um, in um
FhrSlitRequests == {-2, 0, 40, 100, 1100, 2000, 2002}

\* wavelengths asked of the Hr640, and positions it starts at
HrTargets == {499000, 500000, 510000}
HrPositions == {500000, 510000}
\* wavelengths given to load_position_nm and load_target_nm, among them
\* -1.0 nm and 16777.216 nm
HrLoadInputs == HrPositions \cup {-1000, 16777216}
\* coefficient c0 of the calibration files used, in angstrom (c1 = 1, c2 = c3 = 0)
CalC0 == {0, 10}

\* wavelengths asked of the I300, and positions it starts at
I300Targets == {500000, 650250, 700000}
I300Positions == {500000, 650250, 800000}
\* gratings of the turret
I300Gratings == {1, 2, 3}

\* a status byte that is neither ready nor busy
OtherBytes == {0}
\* positions put to the position file, and wavelengths converted to bytes
\* contents of lines 5-8 of the calibration file: a token is a number (c0
\* in angstrom, then c1, c2, c3) or a word that float() rejects
Num(v) == [num |-> TRUE, v |-> v]
Word == [num |-> FALSE, v |-> 0]
CalFiles == { << Num(0), Num(1), Num(0), Num(0) >>,
              << Num(10), Num(1), Num(0), Num(0) >>,
              << Num(10), Num(2), Num(0), Num(0) >>,
              << Num(0), Num(1), Num(0), Num(0), Num(7) >>,
              << Num(0), Num(1), Num(0) >>,
              << Num(0), Word, Num(1), Num(0) >>,
              << >> }
\* every value of a status byte
Bytes == 0..255
\* replies to 'MONO-?DONE', split at white space: the second token is an
\* integer, a word that int() rejects, or missing
I300Replies == { << Word, Num(1) >>, << Word, Num(0) >>, << Word, Num(2) >>,
                 << Word, Num(-1) >>, << Word, Word >>, << Word >> }
\* raw positions converted by the calibration
CalPositions == {499000, 500000, 532123}
PositionInputs == (532120..532127) \cup {0, 500000, 510000}
WavelengthInputs == {0, 255, 256, 257, 1000, 1001, 65535, 65536, 65537,
                     128004, 500000, 532123, 16777215}

Min(a, b) == IF a < b THEN a ELSE b

(***************************************************************************)
(* Fhr1000                                                                 *)
(***************************************************************************)
\* 'z': motors ready, 'q': motors busy
FhrReadyByte == 122
FhrBusyByte == 113
\* nm the grating is driven past the target on a negative move
FhrBacklashNm == 5000

\* round(x, 2) of a value given in thousandths: the nearest hundredth; an
\* exact decimal tie is decided by the binary value of the float, so either
\* neighbour may result
Round2(x) ==
    LET r == x % 10
    IN  IF r < 5 THEN {x - r}
        ELSE IF r > 5 THEN {x - r + 10}
        ELSE {x - r, x - r + 10}

Z61(w) == [cmd |-> "Z61", arg |-> w]
Autocalibrate == [cmd |-> "A", arg |-> 0]
K(steps) == [cmd |-> "k", arg |-> steps]

\* is_busy(): False on 'z', True on 'q', otherwise prints and returns None
\* faulty variant: the ready byte is taken for busy
FhrIsBusy_NeverReady(answer) ==
    IF answer = FhrBusyByte \/ answer = FhrReadyByte THEN "True" ELSE "None"
FhrIsBusy(answer) ==
    IF answer = FhrReadyByte THEN "False"
    ELSE IF answer = FhrBusyByte THEN "True"
    ELSE "None"

\* the truth value `while` gives a result of is_busy()
Truthy(result) == result = "True"

\* move_to_nm: the goto_position_nm_busy calls of the branch taken
\* faulty variant: backlash compensation on the increasing branch
FhrMovePlan_BacklashOnIncrease(current_position_nm, wavelength_nm) ==
    IF current_position_nm > wavelength_nm
    THEN << Z61(wavelength_nm) >>
    ELSE IF current_position_nm < wavelength_nm
    THEN << Z61(wavelength_nm - FhrBacklashNm), Z61(wavelength_nm) >>
    ELSE << >>
FhrMovePlan(current_position_nm, wavelength_nm) ==
    IF current_position_nm < wavelength_nm
    THEN << Z61(wavelength_nm) >>
    ELSE IF current_position_nm > wavelength_nm
    THEN << Z61(wavelength_nm - FhrBacklashNm), Z61(wavelength_nm) >>
    ELSE << >>

\* move_slit_absolute_um accepts 0 .. FhrSlitMaxUm; below FhrSlitNarrowUm the
\* slit is closed first; a closing move overshoots by FhrSlitBacklashSteps
FhrSlitMaxUm == 2000
FhrSlitNarrowUm == 100
FhrSlitBacklashSteps == 50
FhrSlitWarning == "Wrong slit is requested! 0-2000 um is acceptable."

\* move_slit_absolute_um: the range test
\* faulty variant: only the lower end is tested
FhrSlitAccepted_NoUpperEnd(requested_slit_um) == 0 <= requested_slit_um
FhrSlitAccepted(requested_slit_um) ==
    0 <= requested_slit_um /\ requested_slit_um <= FhrSlitMaxUm

\* move_slit_absolute_um: the move_slit_relative_steps calls of the branch
\* taken for an accepted width (widths are even: one step is 2 um)
\* faulty variant: the forward approach of a closing move is left out
FhrSlitPlan_NoApproach(current_slit_um, requested_slit_um) ==
    IF requested_slit_um > current_slit_um
    THEN << K((requested_slit_um - current_slit_um) \div 2) >>
    ELSE IF current_slit_um > requested_slit_um
            /\ requested_slit_um >= FhrSlitNarrowUm
    THEN << K(((requested_slit_um - current_slit_um) \div 2)
                 - FhrSlitBacklashSteps) >>
    ELSE IF current_slit_um > requested_slit_um
            /\ requested_slit_um < FhrSlitNarrowUm
    THEN << K((-current_slit_um) \div 2), K(requested_slit_um \div 2) >>
    ELSE << >>
\* faulty variant: a narrow width is approached like any other
FhrSlitPlan_NoNarrowBranch(current_slit_um, requested_slit_um) ==
    IF requested_slit_um > current_slit_um
    THEN << K((requested_slit_um - current_slit_um) \div 2) >>
    ELSE IF current_slit_um > requested_slit_um
    THEN << K(((requested_slit_um - current_slit_um) \div 2)
                 - FhrSlitBacklashSteps),
            K(FhrSlitBacklashSteps) >>
    ELSE << >>
FhrSlitPlan(current_slit_um, requested_slit_um) ==
    IF requested_slit_um > current_slit_um
    THEN << K((requested_slit_um - current_slit_um) \div 2) >>
    ELSE IF current_slit_um > requested_slit_um
            /\ requested_slit_um >= FhrSlitNarrowUm
    THEN << K(((requested_slit_um - current_slit_um) \div 2)
                 - FhrSlitBacklashSteps),
            K(FhrSlitBacklashSteps) >>
    ELSE IF current_slit_um > requested_slit_um
            /\ requested_slit_um < FhrSlitNarrowUm
    THEN << K((-current_slit_um) \div 2), K(requested_slit_um \div 2) >>
    ELSE << >>

\* the status bytes the device may answer: busy while it moves (always, if
\* stuck), ready once it stands; any reply may be garbled
FhrStatusReplies ==
    IF fd_stuck THEN {FhrBusyByte}
    ELSE IF fd_busy > 0 THEN {FhrBusyByte} \cup OtherBytes
    ELSE {FhrReadyByte} \cup OtherBytes

\* one thread drives the instruments: a call is entered when no other runs
AllIdle ==
    /\ f_pc = "idle" /\ h_pc = "idle" /\ i_pc = "idle"
    /\ g_handler = "none"

FhrStart(call, arg, todo, pc) ==
    /\ f_call' = call
    /\ f_arg' = arg
    /\ f_todo' = todo
    /\ f_pc' = pc
    /\ f_read' = -1
    /\ f_cur' = -1
    /\ f_log' = << >>
    /\ f_error' = "none"
    /\ f_moves' = << >>
    /\ f_polls' = 0
    /\ f_answer' = -1
    /\ UNCHANGED f_owed

\* a caller enters move_to_nm(wavelength_nm)
FhrCallMoveToNm ==
    /\ AllIdle
    /\ mstate["Fhr1000"] = "started"
    /\ \E w \in FhrTargets : FhrStart("move_to_nm", w, << >>, "mv_read")
    /\ UNCHANGED <<fd_pos, fd_slit, fd_busy, fd_stuck>>
    /\ UNCHANGED notF

\* a caller enters goto_position_nm_busy(wavelength_nm)
FhrCallGoto ==
    /\ AllIdle
    /\ mstate["Fhr1000"] = "started"
    /\ \E w \in FhrTargets :
          FhrStart("goto_position_nm_busy", w, << Z61(w) >>, "cmd_write")
    /\ UNCHANGED <<fd_pos, fd_slit, fd_busy, fd_stuck>>
    /\ UNCHANGED notF

\* a caller enters move_slit_relative_steps(requested_slit_steps)
FhrCallSlitRel ==
    /\ AllIdle
    /\ mstate["Fhr1000"] = "started"
    /\ \E s \in FhrSlitMoves :
          /\ fd_slit + s \in 0..FhrSlitMaxSteps
          /\ FhrStart("move_slit_relative_steps", s, << K(s) >>, "cmd_write")
    /\ UNCHANGED <<fd_pos, fd_slit, fd_busy, fd_stuck>>
    /\ UNCHANGED notF

\* a caller enters move_slit_absolute_um(requested_slit_um)
FhrCallSlitAbs ==
    /\ AllIdle
    /\ mstate["Fhr1000"] = "started"
    /\ \E r \in FhrSlitRequests :
          FhrStart("move_slit_absolute_um", r, << >>, "slit_read")
    /\ UNCHANGED <<fd_pos, fd_slit, fd_busy, fd_stuck>>
    /\ UNCHANGED notF

\* move_slit_absolute_um: current_slit_um = read_slit_steps() * 2 (query
\* 'j0,0'), then the range test: the moves of the branch, or the warning
FhrReadSlit ==
    /\ f_pc = "slit_read"
    /\ handle["Fhr1000"] # "None"
    /\ f_read' = fd_slit
    /\ f_cur' = fd_slit * 2
    /\ IF FhrSlitAccepted(f_arg)
       THEN /\ f_todo' = FhrSlitPlan(fd_slit * 2, f_arg)
            /\ f_log' = f_log
            /\ f_pc' = IF FhrSlitPlan(fd_slit * 2, f_arg) = << >>
                       THEN "ret" ELSE "cmd_write"
       ELSE /\ f_todo' = << >>
            /\ f_log' = Append(f_log, FhrSlitWarning)
            /\ f_pc' = "ret"
    /\ UNCHANGED <<f_call, f_arg, f_moves, f_polls, f_answer, f_error,
                   fd_pos, fd_slit, fd_busy, fd_stuck>>
    /\ UNCHANGED notF
    /\ UNCHANGED f_owed

\* move_to_nm: read the position, round it, choose the branch
FhrReadPosition ==
    /\ f_pc = "mv_read"
    /\ handle["Fhr1000"] # "None"
    /\ f_read' = fd_pos
    /\ \E c \in Round2(fd_pos) :
          /\ f_cur' = c
          /\ f_todo' = FhrMovePlan(c, f_arg)
          /\ f_pc' = IF FhrMovePlan(c, f_arg) = << >> THEN "ret" ELSE "cmd_write"
    /\ UNCHANGED <<f_call, f_arg, f_moves, f_polls, f_answer,
                   fd_pos, fd_slit, fd_busy, fd_stuck>>
    /\ UNCHANGED <<f_log, f_error, notF>>
    /\ UNCHANGED f_owed

\* what follows the write of a command: the sleep and read_bytes(1)
\* faulty variant: the status is polled right after a move command
FhrAfterWrite_NoAck(cmd) == IF cmd = "A" THEN "cmd_ack" ELSE "poll_write"
FhrAfterWrite(cmd) == "cmd_ack"

\* write(f'Z61,0,{wavelength_nm}') / write(f'k0,0,{steps}') / write("A"): the
\* device takes the command and starts to move
FhrCmdWrite ==
    /\ f_pc = "cmd_write"
    /\ handle["Fhr1000"] # "None"
    /\ LET c == Head(f_todo)
       IN  /\ f_moves' = Append(f_moves, [cmd |-> c.cmd, arg |-> c.arg,
                                          after |-> f_answer])
           /\ fd_pos' = IF c.cmd = "Z61" THEN c.arg ELSE fd_pos
           /\ fd_slit' = IF c.cmd = "k" THEN fd_slit + c.arg ELSE fd_slit
    /\ fd_busy' \in 0..MaxBusy
    /\ f_owed' = TRUE
    /\ f_pc' = FhrAfterWrite(Head(f_todo).cmd)
    /\ UNCHANGED <<f_call, f_arg, f_read, f_cur, f_todo, f_polls, f_answer,
                   fd_stuck>>
    /\ UNCHANGED <<f_log, f_error, notF>>

\* read_bytes(1): the 'o' that acknowledges the command; autocalibrate
\* ends here, the move commands go on to poll
FhrCmdAck ==
    /\ f_pc = "cmd_ack"
    /\ f_owed' = FALSE
    /\ IF Head(f_todo).cmd = "A"
       THEN /\ f_todo' = Tail(f_todo)
            /\ f_pc' = "ret"
       ELSE /\ f_todo' = f_todo
            /\ f_pc' = "poll_write"
    /\ UNCHANGED <<f_call, f_arg, f_read, f_cur, f_moves, f_polls,
                   f_answer, fd_pos, fd_slit, fd_busy, fd_stuck>>
    /\ UNCHANGED <<f_log, f_error, notF>>

\* is_busy(): write('E')
FhrPollWrite ==
    /\ f_pc = "poll_write"
    /\ f_polls' = Min(f_polls + 1, MaxPolls)
    /\ f_pc' = "poll_read"
    /\ UNCHANGED <<f_call, f_arg, f_read, f_cur, f_todo, f_moves, f_answer,
                   fd_pos, fd_slit, fd_busy, fd_stuck>>
    /\ UNCHANGED <<f_log, f_error, notF>>
    /\ UNCHANGED f_owed

\* is_busy(): read_bytes(2)[1] and its test; `while self.is_busy()` goes
\* round on True and falls through otherwise
FhrPollRead ==
    /\ f_pc = "poll_read"
    /\ \E answer \in FhrStatusReplies :
          /\ f_answer' = answer
          /\ fd_busy' = IF answer = FhrBusyByte /\ fd_busy > 0
                        THEN fd_busy - 1 ELSE fd_busy
          /\ IF Truthy(FhrIsBusy(answer))
             THEN /\ f_pc' = "poll_write"
                  /\ f_todo' = f_todo
             ELSE /\ f_todo' = Tail(f_todo)
                  /\ f_pc' = IF Tail(f_todo) = << >> THEN "ret" ELSE "cmd_write"
    /\ UNCHANGED <<f_call, f_arg, f_read, f_cur, f_moves, f_polls,
                   fd_pos, fd_slit, fd_stuck>>
    /\ UNCHANGED <<f_log, f_error, notF>>
    /\ UNCHANGED f_owed

\* the first use of self._spectrometer_handle in a method (query, write,
\* or the assignment of its timeout) raises AttributeError if it is None
FhrHandleRaises ==
    /\ f_pc \in {"mv_read", "slit_read", "cmd_write"}
    /\ handle["Fhr1000"] = "None"
    /\ f_pc' = "raised"
    /\ f_error' = "AttributeError"
    /\ UNCHANGED <<f_call, f_arg, f_read, f_cur, f_log, f_todo, f_moves,
                   f_polls, f_answer, fd_pos, fd_slit, fd_busy, fd_stuck>>
    /\ UNCHANGED notF
    /\ UNCHANGED f_owed

\* the exception leaves the call
FhrPropagate ==
    /\ f_pc = "raised"
    /\ f_pc' = "idle"
    /\ f_call' = "none"
    /\ UNCHANGED <<f_arg, f_read, f_cur, f_log, f_error, f_todo, f_moves,
                   f_polls, f_answer, fd_pos, fd_slit, fd_busy, fd_stuck>>
    /\ UNCHANGED notF
    /\ UNCHANGED f_owed

\* connect(): the handle is set if open_resource returns, otherwise the
\* warning is logged and the handle keeps its value
\* faulty variant: a handle is set although the port did not open
ConnectHandle_SetAnyway(opened, old) == "open"
ConnectHandle(opened, old) == IF opened THEN "open" ELSE old

Connect(driver) ==
    /\ handle' = [handle EXCEPT
                     ![driver] = ConnectHandle(port_opens[driver], @)]
    /\ warned' = [warned EXCEPT ![driver] = ~ port_opens[driver]]
    /\ mstate' = [mstate EXCEPT ![driver] = "started"]

\* disconnect(): self._spectrometer_handle.close()
Disconnect(driver) ==
    /\ mstate' = [mstate EXCEPT ![driver] = "stopped"]
    /\ IF handle[driver] = "None"
       THEN /\ disc' = [disc EXCEPT ![driver] = "AttributeError"]
            /\ handle' = handle
       ELSE /\ disc' = [disc EXCEPT ![driver] = "closed"]
            /\ handle' = [handle EXCEPT ![driver] = "closed"]

\* Fhr1000.on_activate: connect(), then autocalibrate() if configured
FhrOnActivate ==
    /\ AllIdle
    /\ mstate["Fhr1000"] = "new"
    /\ Connect("Fhr1000")
    /\ IF autocal
       THEN FhrStart("on_activate", 0, << Autocalibrate >>, "cmd_write")
       ELSE FhrStart("on_activate", 0, << >>, "ret")
    /\ UNCHANGED <<fd_pos, fd_slit, fd_busy, fd_stuck>>
    /\ UNCHANGED <<wvars, qvars, hvars, ivars, gvars, pvars, lvars, tvars, port_opens, disc,
                   autocal>>

\* Fhr1000.on_deactivate: disconnect()
FhrOnDeactivate ==
    /\ AllIdle
    /\ mstate["Fhr1000"] = "started"
    /\ Disconnect("Fhr1000")
    /\ UNCHANGED <<wvars, qvars, fvars, hvars, ivars, gvars, pvars, lvars, tvars, port_opens,
                   warned, autocal>>

\* the call returns to its caller
FhrReturn ==
    /\ f_pc = "ret"
    /\ f_pc' = "idle"
    /\ f_call' = "none"
    /\ UNCHANGED <<f_arg, f_read, f_cur, f_todo, f_moves, f_polls, f_answer,
                   fd_pos, fd_slit, fd_busy, fd_stuck>>
    /\ UNCHANGED <<f_log, f_error, notF>>
    /\ UNCHANGED f_owed

FhrInit ==
    /\ f_pc = "idle"
    /\ f_call = "none"
    /\ f_arg = 0
    /\ f_read = -1
    /\ f_cur = -1
    /\ f_log = << >>
    /\ f_error = "none"
    /\ f_todo = << >>
    /\ f_moves = << >>
    /\ f_polls = 0
    /\ f_answer = -1
    /\ f_owed = FALSE
    /\ fd_pos \in FhrPositions
    /\ fd_slit \in FhrSlitStarts
    /\ fd_busy = 0
    /\ fd_stuck \in BOOLEAN

FhrBusySteps ==
    \/ FhrCmdWrite
    \/ FhrCmdAck
    \/ FhrPollWrite
    \/ FhrPollRead
    \/ FhrReturn

FhrNext ==
    \/ FhrCallMoveToNm
    \/ FhrCallGoto
    \/ FhrCallSlitRel
    \/ FhrCallSlitAbs
    \/ FhrReadSlit
    \/ FhrReadPosition
    \/ FhrBusySteps


(***************************************************************************)
(* Hr640 driver and Hr640Logic                                             *)
(***************************************************************************)
\* 'b': ready, 'B': busy
HrReadyByte == 98
HrBusyByte == 66
\* nm below the target that Hr640Logic.move_to_nm drives to first
LogicBacklashNm == 500
\* nm below the wavelength that Hr640.move_to_nm loads on a positive move
HrOffsetNm == 1000

\* the wavelengths, among those the model converts, for which the double
\* wavelength_nm * 1000 lies below the whole number (1.001 * 1000 is
\* 1000.9999999999999), so that math.floor loses one
ProductShort == {1001, 128004}

\* convert_from_nm_to_bytes: w = wavelength_nm * 1000, three math.floor,
\* wire order LSB first
convert_from_nm_to_bytes(wavelength_nm) ==
    LET w == IF wavelength_nm \in ProductShort
             THEN wavelength_nm - 1 ELSE wavelength_nm
        b0 == w \div 65536
        b1 == (w - b0 * 65536) \div 256
        b2 == w - b0 * 65536 - b1 * 256
    IN  << b2, b1, b0 >>

\* convert_from_bytes_to_nm: reverse, recompose, / 1000
\* faulty variant: the bytes are not reversed
convert_from_bytes_to_nm_NoReverse(wavelength_bytes) ==
    wavelength_bytes[1] * 65536 + wavelength_bytes[2] * 256 + wavelength_bytes[3]
convert_from_bytes_to_nm(wavelength_bytes) ==
    wavelength_bytes[3] * 65536 + wavelength_bytes[2] * 256 + wavelength_bytes[1]

\* the frames of the driver methods
FrameReadPosition == << 58, 2, 97, 3, 63, 63, 63, 58 >>
FrameReadTarget == << 58, 2, 116, 3, 63, 63, 63, 58 >>
FrameReadSpeed == << 58, 2, 115, 2, 63, 63, 58 >>
FrameIsBusy == << 58, 2, 0, 0, 63, 58 >>
FrameGo == << 58, 2, 71, 0, 58 >>
FrameLoadTargetBytes(wavelength_bytes) ==
    << 58, 2, 84, 3 >> \o wavelength_bytes \o << 58 >>
FrameLoadPositionBytes(wavelength_bytes) ==
    << 58, 2, 65, 3 >> \o wavelength_bytes \o << 58 >>
FrameLoadTarget(wavelength_nm) ==
    << 58, 2, 84, 3 >> \o convert_from_nm_to_bytes(wavelength_nm) \o << 58 >>
FrameLoadPosition(wavelength_nm) ==
    << 58, 2, 65, 3 >> \o convert_from_nm_to_bytes(wavelength_nm) \o << 58 >>
FrameLoadSpeed(speed_bytes) == << 58, 2, 83, 2 >> \o speed_bytes \o << 58 >>
\* load_speed_bytes: the default of speed_bytes
HrDefaultSpeed == << 60, 0 >>

\* is_busy(): False on 98, True on 66, otherwise prints and returns None
HrIsBusy(answer) ==
    IF answer = HrReadyByte THEN "False"
    ELSE IF answer = HrBusyByte THEN "True"
    ELSE "None"

\* wavelength_to_absolute_position for a calibration [c0, 1, 0, 0]: the root
\* of c0 + x - wavelength_nm * 10 (x in angstrom), which the secant
\* iteration of optimize.newton reaches exactly, divided by 10
wavelength_to_absolute_position(c0, wavelength_nm) == wavelength_nm - c0 * 100

\* A float is written as the decimal nearest to it, in thousandths of a nm,
\* and its distance from that decimal in units in the last place.
Float(nm, ulp) == [nm |-> nm, ulp |-> ulp]

\* the file values v (thousandths of an angstrom) among PositionInputs * 10
\* for which the double float(v / 1000) / 10 lies one unit in the last place
\* above, or below, the double nearest the decimal quotient
QuotientAbove == {5321220, 5321270}
QuotientBelow == {5321230}

\* put_absolute_position_to_file: the second line is
\* str(round(absolute_position_nm * 10, 3)), the shortest decimal of the
\* rounded product
\* faulty variant: the position is written in nm
put_absolute_position_to_file_InNm(absolute_position_nm) == absolute_position_nm
put_absolute_position_to_file(absolute_position_nm) == absolute_position_nm * 10

\* get_absolute_position_from_file: float(dat[1].strip()) / 10
get_absolute_position_from_file(file) ==
    Float(file \div 10,
          IF file \in QuotientAbove THEN 1
          ELSE IF file \in QuotientBelow THEN -1 ELSE 0)

\* absolutePositionBox.setValue(v) emits valueChanged, which is connected to
\* absolute_position_box_changed, when v is not the value the box shows
\* faulty variant: the box is refreshed without a signal
SetValueEmits_Never(box, v) == FALSE
SetValueEmits(box, v) == box # v

\* statements of a function body
Stmt(op, arg) == [op |-> op, arg |-> arg]

\* Hr640Logic.move_to_nm: the statements of the branch taken
\* faulty variant: the decreasing branch stops after the pre-move
LogicMoveScript_NoFinalMove(target_nm, abs) ==
    IF target_nm < abs
    THEN << Stmt("load_target_nm", target_nm - LogicBacklashNm),
            Stmt("go_busy", 0), Stmt("set_absolute_position", target_nm) >>
    ELSE IF target_nm > abs
    THEN << Stmt("load_target_nm", target_nm), Stmt("go_busy", 0),
            Stmt("set_absolute_position", target_nm) >>
    ELSE << >>
\* faulty variant: absolute_position is left at the pre-move target
LogicMoveScript_StalePosition(target_nm, abs) ==
    IF target_nm < abs
    THEN << Stmt("load_target_nm", target_nm - LogicBacklashNm),
            Stmt("go_busy", 0),
            Stmt("set_absolute_position", target_nm - LogicBacklashNm),
            Stmt("load_target_nm", target_nm), Stmt("go_busy", 0) >>
    ELSE IF target_nm > abs
    THEN << Stmt("load_target_nm", target_nm), Stmt("go_busy", 0),
            Stmt("set_absolute_position", target_nm) >>
    ELSE << >>
LogicMoveScript(target_nm, abs) ==
    IF target_nm < abs
    THEN << Stmt("load_target_nm", target_nm - LogicBacklashNm),
            Stmt("go_busy", 0), Stmt("set_absolute_position", target_nm),
            Stmt("load_target_nm", target_nm), Stmt("go_busy", 0),
            Stmt("set_absolute_position", target_nm) >>
    ELSE IF target_nm > abs
    THEN << Stmt("load_target_nm", target_nm), Stmt("go_busy", 0),
            Stmt("set_absolute_position", target_nm) >>
    ELSE << >>

\* Hr640.move_to_nm: the statements before the test of position_now ...
HrMoveScript(c0, wavelength_nm) ==
    << Stmt("load_target_nm", wavelength_to_absolute_position(c0, wavelength_nm)),
       Stmt("read_position_nm", 0), Stmt("branch", wavelength_nm) >>

\* ... and those of the branch taken
HrMoveBranch(position_now, wavelength_nm) ==
    IF position_now < wavelength_nm
    THEN << Stmt("load_target_nm", wavelength_nm - HrOffsetNm), Stmt("go_busy", 0) >>
    ELSE IF position_now > wavelength_nm
    THEN << Stmt("go_busy", 0) >>
    ELSE << >>

\* the frame a driver method writes first
FrameOf(stmt) ==
    IF stmt.op = "load_target_nm" THEN FrameLoadTarget(stmt.arg)
    ELSE IF stmt.op = "load_position_nm" THEN FrameLoadPosition(stmt.arg)
    ELSE IF stmt.op = "load_target_bytes" THEN FrameLoadTargetBytes(stmt.arg)
    ELSE IF stmt.op = "load_position_bytes"
    THEN FrameLoadPositionBytes(stmt.arg)
    ELSE IF stmt.op = "load_speed_bytes" THEN FrameLoadSpeed(stmt.arg)
    ELSE IF stmt.op = "read_position_nm" THEN FrameReadPosition
    ELSE IF stmt.op = "read_target_nm" THEN FrameReadTarget
    ELSE IF stmt.op = "read_speed_bytes" THEN FrameReadSpeed
    ELSE IF stmt.op \in {"go", "go_busy"} THEN FrameGo
    ELSE FrameIsBusy

\* the n of the read_bytes(n) that follows the frame of a driver method
HrReplyBytes(op) ==
    IF op \in {"read_position_nm", "read_target_nm", "load_position_nm",
               "load_target_bytes", "load_target_nm"} THEN 8
    ELSE IF op \in {"read_speed_bytes", "load_position_bytes",
                    "load_speed_bytes"} THEN 7
    ELSE IF op \in {"go", "go_busy"} THEN 5
    ELSE 6

\* the device answers a frame with a reply of the frame's length
HrDeviceReplies(frame) == Len(frame)

\* whether time.sleep(self.delay) follows a write_raw ("write") or a
\* read_bytes ("read") of a driver method
\* faulty variant: go() returns right after its read_bytes
HrSleepsAfter_NotInGo(op, transport) == ~ (op = "go" /\ transport = "read")
HrSleepsAfter(op, transport) == TRUE

\* with bytes of an earlier reply still in the buffer, read[4] is not the
\* status byte of this reply
HrStatusReplies ==
    IF h_rx > HrReplyBytes("is_busy")
    THEN {HrBusyByte, HrReadyByte} \cup OtherBytes
    ELSE IF hd_stuck THEN {HrBusyByte}
    ELSE IF hd_busy > 0 THEN {HrBusyByte} \cup OtherBytes
    ELSE {HrReadyByte} \cup OtherBytes

HrStart(call, arg, script) ==
    /\ h_call' = call
    /\ h_arg' = arg
    /\ h_script' = script
    /\ h_pc' = "next"
    /\ h_op' = "none"
    /\ h_out' = << >>
    /\ h_sent' = << >>
    /\ h_calls' = << >>
    /\ h_gos' = << >>
    /\ UNCHANGED hio
    /\ h_polls' = 0
    /\ h_answer' = -1
    /\ h_position_now' = -1
    /\ h_target0' = hd_target
    /\ h_abs0' = absolute_position
    /\ h_prev' = h_prev
    /\ h_error' = "none"

\* wavelength_box_changed (energy_box_changed, raman_shift_box_changed): the
\* GUI enters Hr640Logic.move_to_nm(target_nm)
LogicCallMoveToNm ==
    /\ AllIdle
    /\ mstate["Hr640"] = "started"
    /\ \E t \in HrTargets :
          HrStart("Hr640Logic.move_to_nm", t, LogicMoveScript(t, absolute_position))
    /\ g_handler' = "wavelength_box_changed"
    /\ UNCHANGED <<absolute_position, hd_position, hd_target, hd_busy,
                   hd_stuck, cal_c0>>
    /\ UNCHANGED <<pos_file, box_abs, g_emitted, notH>>

\* a caller enters Hr640.move_to_nm(wavelength_nm)
HrCallMoveToNm ==
    /\ AllIdle
    /\ mstate["Hr640"] = "started"
    /\ \E w \in HrTargets :
          HrStart("Hr640.move_to_nm", w, HrMoveScript(cal_c0, w))
    /\ UNCHANGED <<absolute_position, hd_position, hd_target, hd_busy,
                   hd_stuck, cal_c0>>
    /\ UNCHANGED <<gvars, notH>>

\* a caller enters Hr640.go_busy()
HrCallGoBusy ==
    /\ AllIdle
    /\ mstate["Hr640"] = "started"
    /\ HrStart("Hr640.go_busy", 0, << Stmt("go_busy", 0) >>)
    /\ UNCHANGED <<absolute_position, hd_position, hd_target, hd_busy,
                   hd_stuck, cal_c0>>
    /\ UNCHANGED <<gvars, notH>>

\* the function enters its next driver method, which builds its frame
HrEnterMethod ==
    /\ h_pc = "next"
    /\ h_script # << >>
    /\ Head(h_script).op \in {"load_target_nm", "load_position_nm",
                              "load_target_bytes", "load_position_bytes",
                              "load_speed_bytes", "read_position_nm",
                              "read_target_nm", "read_speed_bytes",
                              "go", "go_busy", "is_busy"}
    /\ h_op' = Head(h_script).op
    /\ h_out' = FrameOf(Head(h_script))
    /\ h_sent' = << >>
    /\ h_calls' = Append(h_calls, Head(h_script))
    /\ h_pc' = "write"
    /\ UNCHANGED <<h_call, h_arg, h_script, h_gos, h_polls, h_answer,
                   h_position_now, h_target0, h_abs0, h_prev, absolute_position,
                   hd_position, hd_target, hd_busy, hd_stuck, cal_c0>>
    /\ UNCHANGED <<h_error, gvars, notH>>
    /\ UNCHANGED hio

\* self.absolute_position = target_nm
LogicSetAbsolutePosition ==
    /\ h_pc = "next"
    /\ h_script # << >>
    /\ Head(h_script).op = "set_absolute_position"
    /\ absolute_position' = Head(h_script).arg
    /\ h_script' = Tail(h_script)
    /\ UNCHANGED <<h_pc, h_call, h_arg, h_op, h_out, h_sent, h_calls, h_gos,
                   h_polls, h_answer, h_position_now, h_target0, h_abs0, h_prev,
                   hd_position, hd_target, hd_busy, hd_stuck, cal_c0>>
    /\ UNCHANGED <<h_error, gvars, notH>>
    /\ UNCHANGED hio

\* Hr640.move_to_nm: the test of position_now against wavelength_nm
HrBranch ==
    /\ h_pc = "next"
    /\ h_script # << >>
    /\ Head(h_script).op = "branch"
    /\ h_script' = HrMoveBranch(h_position_now, Head(h_script).arg)
    /\ UNCHANGED <<h_pc, h_call, h_arg, h_op, h_out, h_sent, h_calls, h_gos,
                   h_polls, h_answer, h_position_now, h_target0, h_abs0, h_prev,
                   absolute_position, hd_position, hd_target, hd_busy,
                   hd_stuck, cal_c0>>
    /\ UNCHANGED <<h_error, gvars, notH>>
    /\ UNCHANGED hio

\* what the device does with a complete frame
HrDeviceTakes(frame) ==
    IF frame[3] = 84
    THEN /\ hd_target' = convert_from_bytes_to_nm(SubSeq(frame, 5, 7))
         /\ UNCHANGED <<hd_position, hd_busy>>
    ELSE IF frame[3] = 65
    THEN /\ hd_position' = convert_from_bytes_to_nm(SubSeq(frame, 5, 7))
         /\ UNCHANGED <<hd_target, hd_busy>>
    ELSE IF frame[3] = 71
    THEN /\ hd_position' = hd_target
         /\ hd_busy' \in 0..MaxBusy
         /\ UNCHANGED hd_target
    ELSE UNCHANGED <<hd_position, hd_target, hd_busy>>

\* self._spectrometer_handle.write_raw(bytes([i])) for the next byte of the
\* frame: the attribute lookup raises AttributeError on a handle that is
\* None, bytes([i]) raises ValueError for an i outside 0..255
HrWriteByte ==
    /\ h_pc = "write"
    /\ LET i == Head(h_out)
       IN  IF handle["Hr640"] = "None"
           THEN /\ h_pc' = "raised"
                /\ h_error' = "AttributeError"
                /\ UNCHANGED <<h_out, h_sent, h_gos, hd_position, hd_target,
                               hd_busy, hio>>
           ELSE IF i \notin 0..255
           THEN /\ h_pc' = "raised"
                /\ h_error' = "ValueError"
                /\ UNCHANGED <<h_out, h_sent, h_gos, hd_position, hd_target,
                               hd_busy, hio>>
           ELSE /\ h_sent' = Append(h_sent, i)
                /\ h_out' = Tail(h_out)
                /\ h_error' = h_error
                /\ h_gap' = HrSleepsAfter(h_op, "write")
                /\ IF Tail(h_out) = << >>
                   THEN /\ h_pc' = "read"
                        /\ HrDeviceTakes(Append(h_sent, i))
                        /\ h_rx' = h_rx + HrDeviceReplies(Append(h_sent, i))
                        /\ h_owed' = TRUE
                        /\ h_gos' = IF h_op \in {"go", "go_busy"}
                                    THEN Append(h_gos, hd_target) ELSE h_gos
                   ELSE /\ h_pc' = "write"
                        /\ UNCHANGED <<h_gos, hd_position, hd_target, hd_busy,
                                       h_rx, h_owed>>
    /\ h_polls' = IF h_op = "is_busy" /\ h_sent = << >>
                       /\ handle["Hr640"] # "None"
                  THEN Min(h_polls + 1, MaxPolls) ELSE h_polls
    /\ UNCHANGED <<h_call, h_arg, h_script, h_op, h_calls, h_answer,
                   h_position_now, h_target0, h_abs0, h_prev,
                   absolute_position, hd_stuck,
                   cal_c0>>
    /\ UNCHANGED <<gvars, notH>>

\* read_bytes(n) and the sleep after it: n bytes leave the receive buffer
HrReadBytes(op) ==
    /\ h_rx >= HrReplyBytes(op)
    /\ h_rx' = h_rx - HrReplyBytes(op)
    /\ h_owed' = FALSE
    /\ h_gap' = HrSleepsAfter(op, "read")

\* a caller enters one driver method of Hr640; the model does not say what
\* the device makes of the bytes that follow a frame left unfinished
HrCallOperation ==
    /\ AllIdle
    /\ mstate["Hr640"] = "started"
    /\ h_rx < MaxStale
    /\ h_out = << >>
    /\ \/ \E op \in {"read_position_nm", "read_target_nm", "read_speed_bytes",
                      "go", "is_busy"} :
             HrStart(op, 0, << Stmt(op, 0) >>)
       \/ \E op \in {"load_position_nm", "load_target_nm"} :
             \E w \in HrLoadInputs : HrStart(op, w, << Stmt(op, w) >>)
       \/ \E op \in {"load_position_bytes", "load_target_bytes"} :
             \E w \in HrPositions :
                HrStart(op, convert_from_nm_to_bytes(w),
                        << Stmt(op, convert_from_nm_to_bytes(w)) >>)
       \/ HrStart("load_speed_bytes", HrDefaultSpeed,
                  << Stmt("load_speed_bytes", HrDefaultSpeed) >>)
    /\ UNCHANGED <<absolute_position, hd_position, hd_target, hd_busy,
                   hd_stuck, cal_c0>>
    /\ UNCHANGED <<gvars, notH>>

\* read_target_bytes / load_target_bytes: read_bytes(8), read_speed_bytes /
\* load_position_bytes: read_bytes(7), go: read_bytes(5), and the method
\* returns
HrReadReply ==
    /\ h_pc = "read"
    /\ h_op \in {"read_target_nm", "read_speed_bytes", "load_target_bytes",
                 "load_position_bytes", "go"}
    /\ HrReadBytes(h_op)
    /\ h_script' = Tail(h_script)
    /\ h_pc' = "next"
    /\ UNCHANGED <<h_call, h_arg, h_op, h_out, h_sent, h_calls, h_gos,
                   h_polls, h_answer, h_position_now, h_target0, h_abs0, h_prev,
                   absolute_position, hd_position, hd_target, hd_busy,
                   hd_stuck, cal_c0>>
    /\ UNCHANGED <<h_error, gvars, notH>>

\* load_target_nm / load_position_nm: read_bytes(8), load_speed_bytes:
\* read_bytes(7), and the method returns
HrReadLoadReply ==
    /\ h_pc = "read"
    /\ h_op \in {"load_target_nm", "load_position_nm", "load_speed_bytes"}
    /\ HrReadBytes(h_op)
    /\ h_script' = Tail(h_script)
    /\ h_pc' = "next"
    /\ UNCHANGED <<h_call, h_arg, h_op, h_out, h_sent, h_calls, h_gos,
                   h_polls, h_answer, h_position_now, h_target0, h_abs0, h_prev,
                   absolute_position, hd_position, hd_target, hd_busy,
                   hd_stuck, cal_c0>>
    /\ UNCHANGED <<h_error, gvars, notH>>

\* read_position_nm: read_bytes(8), bytes 4..6 converted to nm
HrReadPositionReply ==
    /\ h_pc = "read"
    /\ h_op = "read_position_nm"
    /\ HrReadBytes(h_op)
    /\ h_position_now' \in
          IF h_rx > HrReplyBytes(h_op) THEN HrPositions \cup {0}
          ELSE {convert_from_bytes_to_nm(convert_from_nm_to_bytes(hd_position))}
    /\ h_script' = Tail(h_script)
    /\ h_pc' = "next"
    /\ UNCHANGED <<h_call, h_arg, h_op, h_out, h_sent, h_calls, h_gos,
                   h_polls, h_answer, h_target0, h_abs0, h_prev, absolute_position,
                   hd_position, hd_target, hd_busy, hd_stuck, cal_c0>>
    /\ UNCHANGED <<h_error, gvars, notH>>

\* go_busy: read_bytes(5), then the first is_busy() of the while loop
HrReadGoReply ==
    /\ h_pc = "read"
    /\ h_op = "go_busy"
    /\ HrReadBytes(h_op)
    /\ h_op' = "is_busy"
    /\ h_out' = FrameIsBusy
    /\ h_sent' = << >>
    /\ h_pc' = "write"
    /\ UNCHANGED <<h_call, h_arg, h_script, h_calls, h_gos, h_polls,
                   h_answer, h_position_now, h_target0, h_abs0, h_prev,
                   absolute_position,
                   hd_position, hd_target, hd_busy, hd_stuck, cal_c0>>
    /\ UNCHANGED <<h_error, gvars, notH>>

\* is_busy(): read_bytes(6) and the test of read[4]; `while self.is_busy()`
\* goes round on True and falls through otherwise
HrReadStatusReply ==
    /\ h_pc = "read"
    /\ h_op = "is_busy"
    /\ HrReadBytes(h_op)
    /\ \E answer \in HrStatusReplies :
          /\ h_answer' = answer
          /\ hd_busy' = IF answer = HrBusyByte /\ hd_busy > 0
                        THEN hd_busy - 1 ELSE hd_busy
          /\ IF Truthy(HrIsBusy(answer)) /\ Head(h_script).op = "go_busy"
             THEN /\ h_out' = FrameIsBusy
                  /\ h_sent' = << >>
                  /\ h_pc' = "write"
                  /\ h_script' = h_script
             ELSE /\ h_script' = Tail(h_script)
                  /\ h_pc' = "next"
                  /\ UNCHANGED <<h_out, h_sent>>
    /\ UNCHANGED <<h_call, h_arg, h_op, h_calls, h_gos, h_polls,
                   h_position_now, h_target0, h_abs0, h_prev, absolute_position,
                   hd_position, hd_target, hd_stuck, cal_c0>>
    /\ UNCHANGED <<h_error, gvars, notH>>

\* the function has run its last statement
HrFinish ==
    /\ h_pc = "next"
    /\ h_script = << >>
    /\ h_pc' = "ret"
    /\ UNCHANGED <<h_call, h_arg, h_script, h_op, h_out, h_sent, h_calls,
                   h_gos, h_polls, h_answer, h_position_now, h_target0, h_abs0, h_prev,
                   absolute_position, hd_position, hd_target, hd_busy,
                   hd_stuck, cal_c0>>
    /\ UNCHANGED <<h_error, gvars, notH>>
    /\ UNCHANGED hio

\* the call returns to its caller
HrReturn ==
    /\ h_pc = "ret"
    /\ h_pc' = "idle"
    /\ h_call' = "none"
    /\ h_prev' = [call |-> h_call, arg |-> h_arg]
    /\ UNCHANGED <<h_arg, h_script, h_op, h_out, h_sent, h_calls, h_gos,
                   h_polls, h_answer, h_position_now, h_target0, h_abs0,
                   absolute_position, hd_position, hd_target, hd_busy,
                   hd_stuck, cal_c0>>
    /\ UNCHANGED <<h_error, gvars, notH>>
    /\ UNCHANGED hio

\* wavelength_box_changed after move_to_nm has returned: update_boxes(),
\* whose absolutePositionBox.setValue(absolute_position) runs
\* absolute_position_box_changed if the value is new to the box: the
\* position is taken from the box and put to the file, sigLoadPosition is
\* emitted
GuiUpdateBoxes ==
    /\ h_pc = "idle"
    /\ g_handler # "none"
    /\ g_handler' = "none"
    /\ box_abs' = absolute_position
    /\ IF SetValueEmits(box_abs, absolute_position)
       THEN /\ pos_file' = put_absolute_position_to_file(absolute_position)
            /\ g_emitted' = TRUE
       ELSE UNCHANGED <<pos_file, g_emitted>>
    /\ UNCHANGED <<hvars, notH>>

\* the user sets absolutePositionBox: absolute_position_box_changed takes the
\* position from the box, puts it to the file and emits sigLoadPosition
GuiAbsolutePositionBoxChanged ==
    /\ AllIdle
    /\ mstate["Hr640"] = "started"
    /\ \E v \in HrPositions :
          /\ SetValueEmits(box_abs, v)
          /\ box_abs' = v
          /\ absolute_position' = v
          /\ pos_file' = put_absolute_position_to_file(v)
          /\ h_prev' = [call |-> "Hr640Gui.absolute_position_box_changed",
                        arg |-> v]
    /\ g_emitted' = TRUE
    /\ UNCHANGED <<h_pc, h_call, h_arg, h_script, h_op, h_out, h_sent, h_calls,
                   h_gos, h_polls, h_answer, h_position_now, h_target0, h_abs0,
                   h_error, hd_position, hd_target, hd_busy, hd_stuck, cal_c0>>
    /\ UNCHANGED <<g_handler, notH>>
    /\ UNCHANGED hio

\* the slot of sigLoadPosition: Hr640Logic.load_position()
LogicLoadPosition ==
    /\ AllIdle
    /\ mstate["Hr640"] = "started"
    /\ g_emitted
    /\ g_emitted' = FALSE
    /\ HrStart("Hr640Logic.load_position", absolute_position,
               << Stmt("load_position_nm", absolute_position) >>)
    /\ UNCHANGED <<absolute_position, hd_position, hd_target, hd_busy,
                   hd_stuck, cal_c0>>
    /\ UNCHANGED <<pos_file, box_abs, g_handler, notH>>

\* the exception leaves the call, and the GUI handler that made it
HrPropagate ==
    /\ h_pc = "raised"
    /\ h_pc' = "idle"
    /\ h_call' = "none"
    /\ h_prev' = [call |-> h_call, arg |-> h_arg, error |-> h_error]
    /\ g_handler' = "none"
    /\ UNCHANGED <<h_arg, h_script, h_op, h_out, h_sent, h_calls, h_gos,
                   h_polls, h_answer, h_position_now, h_target0, h_abs0,
                   h_error, absolute_position, hd_position, hd_target, hd_busy,
                   hd_stuck, cal_c0>>
    /\ UNCHANGED <<pos_file, box_abs, g_emitted, notH>>
    /\ UNCHANGED hio

\* Hr640.on_activate: connect(), then load_speed_bytes()
HrOnActivate ==
    /\ AllIdle
    /\ mstate["Hr640"] = "new"
    /\ Connect("Hr640")
    /\ HrStart("Hr640.on_activate", 0,
               << Stmt("load_speed_bytes", HrDefaultSpeed) >>)
    /\ UNCHANGED <<absolute_position, hd_position, hd_target, hd_busy,
                   hd_stuck, cal_c0>>
    /\ UNCHANGED <<wvars, qvars, fvars, ivars, gvars, pvars, lvars, tvars, port_opens, disc,
                   autocal>>

\* Hr640.on_deactivate: disconnect()
HrOnDeactivate ==
    /\ AllIdle
    /\ mstate["Hr640"] = "started"
    /\ Disconnect("Hr640")
    /\ UNCHANGED <<wvars, qvars, fvars, hvars, ivars, gvars, pvars, lvars, tvars, port_opens,
                   warned, autocal>>

HrInit ==
    /\ h_pc = "idle"
    /\ h_call = "none"
    /\ h_arg = 0
    /\ h_script = << >>
    /\ h_op = "none"
    /\ h_out = << >>
    /\ h_sent = << >>
    /\ h_calls = << >>
    /\ h_gos = << >>
    /\ h_polls = 0
    /\ h_answer = -1
    /\ h_position_now = -1
    /\ absolute_position \in HrPositions
    /\ hd_position \in HrPositions
    /\ hd_target = hd_position
    /\ h_target0 = hd_target
    /\ h_abs0 = absolute_position
    /\ h_prev = [call |-> "none", arg |-> 0]
    /\ h_error = "none"
    /\ h_rx = 0
    /\ h_owed = FALSE
    /\ h_gap = TRUE
    /\ hd_busy = 0
    /\ hd_stuck \in BOOLEAN
    /\ cal_c0 \in CalC0
    /\ pos_file = put_absolute_position_to_file(absolute_position)
    /\ box_abs = absolute_position
    /\ g_handler = "none"
    /\ g_emitted = FALSE
    /\ p_fn = "none"
    /\ p_in = 0
    /\ p_out = 0

Drivers == {"Fhr1000", "Hr640"}

\* both drivers have been activated and their ports have opened
Connected ==
    /\ handle = [d \in Drivers |-> "open"]
    /\ mstate = [d \in Drivers |-> "started"]
    /\ port_opens = [d \in Drivers |-> TRUE]
    /\ warned = [d \in Drivers |-> FALSE]
    /\ disc = [d \in Drivers |-> "none"]
    /\ autocal = TRUE

\* one quiet state of each subsystem, for the specifications of the others
FhrQuiet ==
    /\ FhrInit
    /\ fd_pos = 500000
    /\ fd_stuck = FALSE

HrQuiet ==
    /\ HrInit
    /\ absolute_position = 500000
    /\ hd_position = 500000
    /\ hd_stuck = FALSE
    /\ cal_c0 = 0

HrBusySteps ==
    \/ HrEnterMethod
    \/ HrWriteByte
    \/ HrReadGoReply
    \/ HrReadStatusReply
    \/ HrFinish
    \/ HrReturn

HrNext ==
    \/ LogicCallMoveToNm
    \/ HrCallMoveToNm
    \/ HrCallGoBusy
    \/ LogicSetAbsolutePosition
    \/ HrBranch
    \/ HrReadLoadReply
    \/ HrReadPositionReply
    \/ HrBusySteps
    \/ GuiUpdateBoxes
    \/ GuiAbsolutePositionBoxChanged
    \/ LogicLoadPosition

(***************************************************************************)
(* Hr640Logic: activation and calibration                                  *)
(***************************************************************************)
\* get_coefficients_from_file: every token of lines 5-8 that float() accepts,
\* in file order
get_coefficients_from_file(tokens) ==
    LET nums == SelectSeq(tokens, LAMBDA t : t.num)
    IN  [k \in 1..Len(nums) |-> nums[k].v]

Value(nm) == [error |-> "none", nm |-> nm]
Raised(error) == [error |-> error, nm |-> 0]

\* Hr640Logic.absolute_position_to_wavelength with the coefficients c read
\* from the file: (c[0] + x * c[1] + x * x * c[2] + x * x * x * c[3]) / 10 for
\* x = wavelength_nm * 10; the calibrations of the model have c[2] = c[3] = 0
LogicAbsolutePositionToWavelength(c, wavelength_nm) ==
    IF Len(c) < 4 THEN Raised("IndexError")
    ELSE Value(c[1] * 100 + wavelength_nm * c[2])

\* Hr640Logic.wavelength_to_absolute_position with self.coeffs = c: the root
\* of c[0] + c[1] * x - wavelength_nm * 10, which the secant iteration of
\* optimize.newton reaches for a straight line, divided by 10; the
\* calibrations of the model have a slope c[1] # 0
LogicWavelengthToAbsolutePosition(c, wavelength_nm) ==
    IF Len(c) < 4 THEN Raised("IndexError")
    ELSE Value((wavelength_nm - c[1] * 100) \div c[2])

\* Hr640Logic.on_activate: the position and the coefficients are read from
\* their files
LogicOnActivate ==
    /\ AllIdle
    /\ lg_state = "new"
    /\ lg_state' = "active"
    /\ absolute_position' = get_absolute_position_from_file(pos_file).nm
    /\ coeffs' = get_coefficients_from_file(cal_file)
    /\ UNCHANGED cal_file
    /\ UNCHANGED hrest
    /\ UNCHANGED <<wvars, qvars, fvars, ivars, gvars, pvars, cvars, tvars>>

\* Hr640Logic.on_deactivate: pass
LogicOnDeactivate ==
    /\ AllIdle
    /\ lg_state = "active"
    /\ lg_state' = "new"
    /\ UNCHANGED <<coeffs, cal_file>>
    /\ UNCHANGED <<wvars, qvars, fvars, hvars, ivars, gvars, pvars, cvars, tvars>>

\* the calibration file is rewritten (a new calibration of the instrument)
CalFileChanges ==
    /\ \E f \in CalFiles :
          /\ f # cal_file
          /\ cal_file' = f
    /\ UNCHANGED <<lg_state, coeffs>>
    /\ UNCHANGED <<wvars, qvars, fvars, hvars, ivars, gvars, pvars, cvars, tvars>>

\* wavelength_to_absolute_position(absolute_position_to_wavelength(x)):
\* the forward conversion reads the coefficients from the file at each call,
\* the inverse evaluates self.coeffs
ApplyCalibrationRoundTrip ==
    /\ lg_state = "active"
    /\ \E x \in CalPositions :
          LET fwd_coeffs == get_coefficients_from_file(cal_file)
              back_coeffs == coeffs
              fwd == LogicAbsolutePositionToWavelength(fwd_coeffs, x)
          IN  /\ p_fn' = "calibration_round_trip"
              /\ p_in' = x
              /\ p_out' = [fwd |-> fwd,
                           back |-> IF fwd.error # "none" THEN fwd
                                    ELSE LogicWavelengthToAbsolutePosition(
                                             back_coeffs, fwd.nm),
                           fwd_coeffs |-> fwd_coeffs,
                           back_coeffs |-> back_coeffs]
    /\ UNCHANGED <<wvars, qvars, fvars, hvars, ivars, gvars, cvars, lvars, tvars>>

\* get_coefficients_from_file() of the file as it is now
ApplyGetCoefficients ==
    /\ p_fn' = "get_coefficients_from_file"
    /\ p_in' = cal_file
    /\ p_out' = get_coefficients_from_file(cal_file)
    /\ UNCHANGED <<wvars, qvars, fvars, hvars, ivars, gvars, cvars, lvars, tvars>>

LogicNext ==
    \/ LogicOnActivate
    \/ LogicOnDeactivate
    \/ CalFileChanges
    \/ ApplyCalibrationRoundTrip
    \/ ApplyGetCoefficients

\* Hr640Logic is active with the calibration [0, 1, 0, 0]
LogicQuiet ==
    /\ lg_state = "active"
    /\ cal_file = << Num(0), Num(1), Num(0), Num(0) >>
    /\ coeffs = << 0, 1, 0, 0 >>

(***************************************************************************)
(* Two threads calling Hr640Logic                                          *)
(***************************************************************************)
\* Hr640Logic.threadlock is created in __init__ and acquired nowhere, and
\* Hr640 has no lock: a thread enters a method whatever the other is doing.
\* write_raw of one byte and read_bytes of a reply are the steps of a thread.
Threads == {"gui", "logic"}

ThreadStart(t, call, script) ==
    /\ t_pc' = [t_pc EXCEPT ![t] = "next"]
    /\ t_call' = [t_call EXCEPT ![t] = call]
    /\ t_script' = [t_script EXCEPT ![t] = script]
    /\ UNCHANGED <<t_op, t_out, t_flight>>
    /\ UNCHANGED <<wvars, qvars, fvars, hvars, ivars, gvars, pvars, cvars, lvars>>

\* Hr640Logic.ask_busy
ThreadCallAskBusy(t) ==
    /\ t_pc[t] = "idle"
    /\ ThreadStart(t, "Hr640Logic.ask_busy", << Stmt("is_busy", 0) >>)

\* Hr640Logic.load_position
ThreadCallLoadPosition(t) ==
    /\ t_pc[t] = "idle"
    /\ ThreadStart(t, "Hr640Logic.load_position",
                   << Stmt("load_position_nm", absolute_position) >>)

\* Hr640Logic.move_to_nm
ThreadCallMoveToNm(t) ==
    /\ t_pc[t] = "idle"
    /\ \E target_nm \in HrTargets :
          ThreadStart(t, "Hr640Logic.move_to_nm",
                      LogicMoveScript(target_nm, absolute_position))

\* the thread enters the next Hr640 method of its call
ThreadEnterMethod(t) ==
    /\ t_pc[t] = "next"
    /\ t_script[t] # << >>
    /\ Head(t_script[t]).op # "set_absolute_position"
    /\ t_op' = [t_op EXCEPT ![t] = Head(t_script[t]).op]
    /\ t_out' = [t_out EXCEPT ![t] = FrameOf(Head(t_script[t]))]
    /\ t_script' = [t_script EXCEPT ![t] = Tail(t_script[t])]
    /\ t_pc' = [t_pc EXCEPT ![t] = "write"]
    /\ UNCHANGED <<t_call, t_flight>>
    /\ UNCHANGED <<wvars, qvars, fvars, hvars, ivars, gvars, pvars, cvars, lvars>>

\* self.absolute_position = target_nm
ThreadSetAbsolutePosition(t) ==
    /\ t_pc[t] = "next"
    /\ t_script[t] # << >>
    /\ Head(t_script[t]).op = "set_absolute_position"
    /\ absolute_position' = Head(t_script[t]).arg
    /\ t_script' = [t_script EXCEPT ![t] = Tail(t_script[t])]
    /\ UNCHANGED <<t_pc, t_call, t_op, t_out, t_flight>>
    /\ UNCHANGED hrest
    /\ UNCHANGED <<wvars, qvars, fvars, ivars, gvars, pvars, cvars, lvars>>

\* self._spectrometer_handle.write_raw(bytes([i])) and the sleep after it
ThreadWriteByte(t) ==
    /\ t_pc[t] = "write"
    /\ t_out' = [t_out EXCEPT ![t] = Tail(t_out[t])]
    /\ t_flight' = [t_flight EXCEPT ![t] = TRUE]
    /\ t_pc' = [t_pc EXCEPT ![t] = IF Tail(t_out[t]) = << >> THEN "read"
                                   ELSE "write"]
    /\ UNCHANGED <<t_call, t_script, t_op>>
    /\ UNCHANGED <<wvars, qvars, fvars, hvars, ivars, gvars, pvars, cvars, lvars>>

\* read_bytes of the reply returns; go_busy goes on with is_busy() of its
\* while loop, and again for as long as the status read is busy
ThreadReadReply(t) ==
    /\ t_pc[t] = "read"
    /\ t_flight' = [t_flight EXCEPT ![t] = FALSE]
    /\ \/ /\ t_op[t] \in {"go_busy", "go_busy.is_busy"}
          /\ t_op' = [t_op EXCEPT ![t] = "go_busy.is_busy"]
          /\ t_out' = [t_out EXCEPT ![t] = FrameIsBusy]
          /\ t_pc' = [t_pc EXCEPT ![t] = "write"]
       \/ /\ t_op[t] # "go_busy"
          /\ t_op' = [t_op EXCEPT ![t] = "none"]
          /\ t_pc' = [t_pc EXCEPT ![t] = "next"]
          /\ UNCHANGED t_out
    /\ UNCHANGED <<t_call, t_script>>
    /\ UNCHANGED <<wvars, qvars, fvars, hvars, ivars, gvars, pvars, cvars, lvars>>

\* the Hr640Logic method returns
ThreadReturn(t) ==
    /\ t_pc[t] = "next"
    /\ t_script[t] = << >>
    /\ t_pc' = [t_pc EXCEPT ![t] = "idle"]
    /\ t_call' = [t_call EXCEPT ![t] = "none"]
    /\ UNCHANGED <<t_script, t_op, t_out, t_flight>>
    /\ UNCHANGED <<wvars, qvars, fvars, hvars, ivars, gvars, pvars, cvars, lvars>>

ThreadsNext ==
    \E t \in Threads :
        \/ ThreadCallAskBusy(t)
        \/ ThreadCallLoadPosition(t)
        \/ ThreadCallMoveToNm(t)
        \/ ThreadEnterMethod(t)
        \/ ThreadSetAbsolutePosition(t)
        \/ ThreadWriteByte(t)
        \/ ThreadReadReply(t)
        \/ ThreadReturn(t)

\* no thread is inside Hr640Logic
ThreadsQuiet ==
    /\ t_pc = [t \in Threads |-> "idle"]
    /\ t_call = [t \in Threads |-> "none"]
    /\ t_script = [t \in Threads |-> << >>]
    /\ t_op = [t \in Threads |-> "none"]
    /\ t_out = [t \in Threads |-> << >>]
    /\ t_flight = [t \in Threads |-> FALSE]

(***************************************************************************)
(* Conversions applied on their own                                        *)
(***************************************************************************)
\* I300.is_busy(): int(answer.split()[1]) is 1: False, 0: True, otherwise
\* prints and returns None; split()[1] and int() raise
\* faulty variant: every integer but 1 is taken for busy
I300IsBusy_ElseBusy(answer) ==
    IF Len(answer) < 2 THEN "IndexError"
    ELSE IF ~ answer[2].num THEN "ValueError"
    ELSE IF answer[2].v = 1 THEN "False"
    ELSE "True"
I300IsBusy(answer) ==
    IF Len(answer) < 2 THEN "IndexError"
    ELSE IF ~ answer[2].num THEN "ValueError"
    ELSE IF answer[2].v = 1 THEN "False"
    ELSE IF answer[2].v = 0 THEN "True"
    ELSE "None"

\* put_absolute_position_to_file(nm), then get_absolute_position_from_file()
\* on the same path (Hr640Logic and Hr640 hold the same two functions)
ApplyPositionFile ==
    /\ \E nm \in PositionInputs :
          /\ p_fn' = "position_file"
          /\ p_in' = Float(nm, 0)
          /\ p_out' = [file |-> put_absolute_position_to_file(nm),
                       back |-> get_absolute_position_from_file(
                                    put_absolute_position_to_file(nm))]
    /\ UNCHANGED <<wvars, qvars, fvars, hvars, ivars, gvars, cvars, lvars, tvars>>

\* convert_from_nm_to_bytes(w), then convert_from_bytes_to_nm of the result
ApplyBytes ==
    /\ \E w \in WavelengthInputs :
          /\ p_fn' = "bytes"
          /\ p_in' = w
          /\ p_out' = [bytes |-> convert_from_nm_to_bytes(w),
                       back |-> convert_from_bytes_to_nm(
                                    convert_from_nm_to_bytes(w))]
    /\ UNCHANGED <<wvars, qvars, fvars, hvars, ivars, gvars, cvars, lvars, tvars>>

\* Hr640.is_busy on a status byte read[4]
ApplyHrIsBusy ==
    /\ \E b \in Bytes :
          /\ p_fn' = "Hr640.is_busy"
          /\ p_in' = b
          /\ p_out' = HrIsBusy(b)
    /\ UNCHANGED <<wvars, qvars, fvars, hvars, ivars, gvars, cvars, lvars, tvars>>

\* Fhr1000.is_busy on a status byte read_bytes(2)[1]
ApplyFhrIsBusy ==
    /\ \E b \in Bytes :
          /\ p_fn' = "Fhr1000.is_busy"
          /\ p_in' = b
          /\ p_out' = FhrIsBusy(b)
    /\ UNCHANGED <<wvars, qvars, fvars, hvars, ivars, gvars, cvars, lvars, tvars>>

\* I300.is_busy on a reply to 'MONO-?DONE'
ApplyI300IsBusy ==
    /\ \E answer \in I300Replies :
          /\ p_fn' = "I300.is_busy"
          /\ p_in' = answer
          /\ p_out' = I300IsBusy(answer)
    /\ UNCHANGED <<wvars, qvars, fvars, hvars, ivars, gvars, cvars, lvars, tvars>>

PureNext ==
    \/ ApplyPositionFile
    \/ ApplyBytes
    \/ ApplyHrIsBusy
    \/ ApplyFhrIsBusy
    \/ ApplyI300IsBusy

(***************************************************************************)
(* I300                                                                    *)
(***************************************************************************)
\* handle.timeout during a move, and the value set back afterwards (which
\* is also what the handle is opened with), in ms
I300LongTimeout == 600000
I300Timeout == 2000

\* move_to_nm: timeout raised, one query f'{wavelength_nm} NM', timeout
\* set back
\* faulty variant: a non-blocking move followed by a MONO-?DONE poll
I300MoveScript_Polling(wavelength_nm) ==
    << Stmt("set_timeout", I300LongTimeout),
       [op |-> "query", arg |-> wavelength_nm, verb |-> ">NM"],
       [op |-> "query", arg |-> 0, verb |-> "MONO-?DONE"],
       Stmt("set_timeout", I300Timeout) >>
I300MoveScript(wavelength_nm) ==
    << Stmt("set_timeout", I300LongTimeout),
       [op |-> "query", arg |-> wavelength_nm, verb |-> "NM"],
       Stmt("set_timeout", I300Timeout) >>

I3Start(call, arg, script) ==
    /\ i_call' = call
    /\ i_arg' = arg
    /\ i_script' = script
    /\ i_log' = << >>
    /\ i_pc' = "next"

\* a caller enters move_to_nm(wavelength_nm)
I3CallMoveToNm ==
    /\ AllIdle
    /\ \E w \in I300Targets : I3Start("move_to_nm", w, I300MoveScript(w))
    /\ UNCHANGED <<i_timeout, id_pos>>
    /\ UNCHANGED notI

\* set_grating: timeout raised, one query f'{grating_number} GRATING',
\* timeout set back
I300GratingScript(grating_number) ==
    << Stmt("set_timeout", I300LongTimeout),
       [op |-> "query", arg |-> grating_number, verb |-> "GRATING"],
       Stmt("set_timeout", I300Timeout) >>

\* a caller enters set_grating(grating_number)
I3CallSetGrating ==
    /\ AllIdle
    /\ \E g \in I300Gratings : I3Start("set_grating", g, I300GratingScript(g))
    /\ UNCHANGED <<i_timeout, id_pos>>
    /\ UNCHANGED notI

\* a caller enters is_busy(): query('MONO-?DONE')
I3CallIsBusy ==
    /\ AllIdle
    /\ I3Start("is_busy", 0, << [op |-> "query", arg |-> 0, verb |-> "MONO-?DONE"] >>)
    /\ UNCHANGED <<i_timeout, id_pos>>
    /\ UNCHANGED notI

\* a caller enters read_position_nm(): query('?NM')
I3CallReadPosition ==
    /\ AllIdle
    /\ I3Start("read_position_nm", 0, << [op |-> "query", arg |-> 0, verb |-> "?NM"] >>)
    /\ UNCHANGED <<i_timeout, id_pos>>
    /\ UNCHANGED notI

\* self._spectrometer_handle.timeout = ...
I3SetTimeout ==
    /\ i_pc = "next"
    /\ i_script # << >>
    /\ Head(i_script).op = "set_timeout"
    /\ i_timeout' = Head(i_script).arg
    /\ i_script' = Tail(i_script)
    /\ UNCHANGED <<i_pc, i_call, i_arg, i_log, id_pos>>
    /\ UNCHANGED notI

\* query(): the command is written; a move command sets the grating going
I3QueryWrite ==
    /\ i_pc = "next"
    /\ i_script # << >>
    /\ Head(i_script).op = "query"
    /\ i_log' = Append(i_log, [arg |-> Head(i_script).arg,
                               verb |-> Head(i_script).verb,
                               timeout |-> i_timeout])
    /\ id_pos' = IF Head(i_script).verb \in {"NM", ">NM"}
                 THEN Head(i_script).arg ELSE id_pos
    /\ i_pc' = "reply"
    /\ UNCHANGED <<i_call, i_arg, i_script, i_timeout>>
    /\ UNCHANGED notI

\* query(): the reply arrives before the timeout
I3QueryRead ==
    /\ i_pc = "reply"
    /\ i_script' = Tail(i_script)
    /\ i_pc' = "next"
    /\ UNCHANGED <<i_call, i_arg, i_log, i_timeout, id_pos>>
    /\ UNCHANGED notI

\* query(): no reply within the timeout, the read raises VisaIOError,
\* which nothing in the driver catches
I3QueryTimeout ==
    /\ i_pc = "reply"
    /\ i_pc' = "raised"
    /\ UNCHANGED <<i_call, i_arg, i_script, i_log, i_timeout, id_pos>>
    /\ UNCHANGED notI

\* the method has run its last statement
I3Finish ==
    /\ i_pc = "next"
    /\ i_script = << >>
    /\ i_pc' = "ret"
    /\ UNCHANGED <<i_call, i_arg, i_script, i_log, i_timeout, id_pos>>
    /\ UNCHANGED notI

\* the call returns, or its exception reaches the caller
I3Return ==
    /\ i_pc \in {"ret", "raised"}
    /\ i_pc' = "idle"
    /\ i_call' = "none"
    /\ UNCHANGED <<i_arg, i_script, i_log, i_timeout, id_pos>>
    /\ UNCHANGED notI

I3Init ==
    /\ i_pc = "idle"
    /\ i_call = "none"
    /\ i_arg = 0
    /\ i_script = << >>
    /\ i_log = << >>
    /\ i_timeout = I300Timeout
    /\ id_pos \in I300Positions

I3Quiet ==
    /\ I3Init
    /\ id_pos = 500000

I3Next ==
    \/ I3CallMoveToNm
    \/ I3CallSetGrating
    \/ I3CallIsBusy
    \/ I3CallReadPosition
    \/ I3SetTimeout
    \/ I3QueryWrite
    \/ I3QueryRead
    \/ I3QueryTimeout
    \/ I3Finish
    \/ I3Return

(***************************************************************************)
(* Fhr1000Logic and I300Logic: move_grating_nm                             *)
(***************************************************************************)
\* what the Fhr1000 answers to 'Z62,0': where the grating stands, or, while
\* it moves, a position on its way from where the move began
FhrPositionReplies ==
    IF fd_busy > 0 THEN {f_read, fd_pos} ELSE {fd_pos}

\* no move_grating_nm is running
GratingIdle == fl_pc = "idle" /\ il_pc = "idle"

\* Fhr1000Logic.move_grating_nm(requested_position_nm) enters
\* self._hardware.move_to_nm(requested_position_nm)
FlCallMoveGratingNm ==
    /\ AllIdle
    /\ GratingIdle
    /\ mstate["Fhr1000"] = "started"
    /\ \E w \in FhrTargets : FhrStart("move_to_nm", w, << >>, "mv_read")
    /\ fl_pc' = "driver"
    /\ UNCHANGED <<fd_pos, fd_slit, fd_busy, fd_stuck>>
    /\ UNCHANGED <<fl_cur, fl_moving, il_pc, il_cur>>
    /\ UNCHANGED <<hvars, ivars, gvars, pvars, cvars, lvars, tvars, qvars>>

\* self._current_wavelength_nm = self.read_grating_nm(), once move_to_nm
\* has returned
FlReadGrating ==
    /\ fl_pc = "driver"
    /\ f_pc = "idle"
    /\ \E reply \in FhrPositionReplies : fl_cur' = reply
    /\ fl_moving' = (fd_busy > 0)
    /\ fl_pc' = "ret"
    /\ UNCHANGED <<il_pc, il_cur>>
    /\ UNCHANGED <<fvars, hvars, ivars, gvars, pvars, cvars, lvars, tvars, qvars>>

\* move_grating_nm returns
FlReturn ==
    /\ fl_pc = "ret"
    /\ fl_pc' = "idle"
    /\ UNCHANGED <<fl_cur, fl_moving, il_pc, il_cur>>
    /\ UNCHANGED <<fvars, hvars, ivars, gvars, pvars, cvars, lvars, tvars, qvars>>

\* I300Logic.move_grating_nm(requested_position_nm) enters
\* self._hardware.move_to_nm(requested_position_nm)
IlCallMoveGratingNm ==
    /\ AllIdle
    /\ GratingIdle
    /\ \E w \in I300Targets : I3Start("move_to_nm", w, I300MoveScript(w))
    /\ il_pc' = "driver"
    /\ UNCHANGED <<i_timeout, id_pos>>
    /\ UNCHANGED <<fl_pc, fl_cur, fl_moving, il_cur>>
    /\ UNCHANGED <<fvars, hvars, gvars, pvars, cvars, lvars, tvars, qvars>>

\* self._current_wavelength_nm = self.read_grating_nm(), once move_to_nm
\* has returned: query('?NM') of the grating at rest
IlReadGrating ==
    /\ il_pc = "driver"
    /\ i_pc = "idle"
    /\ i_script = << >>
    /\ il_cur' = id_pos
    /\ il_pc' = "ret"
    /\ UNCHANGED <<fl_pc, fl_cur, fl_moving>>
    /\ UNCHANGED <<fvars, hvars, ivars, gvars, pvars, cvars, lvars, tvars, qvars>>

\* the exception of move_to_nm leaves move_grating_nm before the assignment
IlPropagate ==
    /\ il_pc = "driver"
    /\ i_pc = "idle"
    /\ i_script # << >>
    /\ il_pc' = "idle"
    /\ UNCHANGED <<fl_pc, fl_cur, fl_moving, il_cur>>
    /\ UNCHANGED <<fvars, hvars, ivars, gvars, pvars, cvars, lvars, tvars, qvars>>

\* move_grating_nm returns
IlReturn ==
    /\ il_pc = "ret"
    /\ il_pc' = "idle"
    /\ UNCHANGED <<fl_pc, fl_cur, fl_moving, il_cur>>
    /\ UNCHANGED <<fvars, hvars, ivars, gvars, pvars, cvars, lvars, tvars, qvars>>

\* both logics after on_activate, which reads the position
GratingQuiet ==
    /\ fl_pc = "idle"
    /\ fl_cur = fd_pos
    /\ fl_moving = FALSE
    /\ il_pc = "idle"
    /\ il_cur = id_pos

GratingNext ==
    \/ FlCallMoveGratingNm
    \/ FlReadGrating
    \/ FlReturn
    \/ IlCallMoveGratingNm
    \/ IlReadGrating
    \/ IlPropagate
    \/ IlReturn
    \/ FhrReadPosition
    \/ FhrCmdWrite
    \/ FhrCmdAck
    \/ FhrPollWrite
    \/ FhrPollRead
    \/ FhrReturn
    \/ I3SetTimeout
    \/ I3QueryWrite
    \/ I3QueryRead
    \/ I3QueryTimeout
    \/ I3Finish
    \/ I3Return

(***************************************************************************)
(* CCDLogic and TemperatureLogic: the repeating loops                      *)
(***************************************************************************)
Loops == {"ccd", "temperature"}

\* both logics after on_activate: stopRequest = False, nothing queued
LoopsQuiet ==
    /\ lp_stop = [m \in Loops |-> FALSE]
    /\ lp_pending = [m \in Loops |-> 0]
    /\ lp_acq = [m \in Loops |-> 0]
    /\ lp_asked = [m \in Loops |-> FALSE]
    /\ lp_exit = [m \in Loops |-> "none"]
    /\ cc_locked = FALSE
    /\ tm_last = FALSE

\* the count of acquisitions after one more
Acquired(n) == IF n = 1 THEN 2 ELSE 1

\* how a loop that returns is recorded: it has acquired since the last
\* start, or not, although the stop came after that start ("stopped_early")
\* or before it ("empty")
ExitKind(acq, asked) ==
    IF acq > 0 THEN "acquired"
    ELSE IF asked THEN "stopped_early" ELSE "empty"

\* CCDLogic.focus_loop: what one run of the slot does
\* faulty variant: the data are fetched before stopRequest is tested
FocusLoopBody_AcquiresFirst(stopRequest) ==
    IF stopRequest
    THEN [stopRequest |-> FALSE, unlock |-> TRUE, acquire |-> TRUE,
          emit |-> FALSE]
    ELSE [stopRequest |-> FALSE, unlock |-> FALSE, acquire |-> TRUE,
          emit |-> TRUE]
FocusLoopBody(stopRequest) ==
    IF stopRequest
    THEN [stopRequest |-> FALSE, unlock |-> TRUE, acquire |-> FALSE,
          emit |-> FALSE]
    ELSE [stopRequest |-> FALSE, unlock |-> FALSE, acquire |-> TRUE,
          emit |-> TRUE]

\* TemperatureLogic.temperature_measurement_loop: what one run of the slot
\* does
TemperatureLoopBody(stopRequest) ==
    IF stopRequest
    THEN [stopRequest |-> FALSE, acquire |-> FALSE, emit |-> FALSE]
    ELSE [stopRequest |-> FALSE, acquire |-> TRUE, emit |-> TRUE]

\* CCDLogic.start_focus: module_state.lock(), sigRepeat.emit(); focus_clicked
\* emits sigFocusStart when module_state is not 'locked', and lock() does
\* not pass from 'locked'
StartFocus ==
    /\ ~ cc_locked
    /\ cc_locked' = TRUE
    /\ lp_pending' = [lp_pending EXCEPT !["ccd"] = @ + 1]
    /\ lp_acq' = [lp_acq EXCEPT !["ccd"] = 0]
    /\ lp_asked' = [lp_asked EXCEPT !["ccd"] = FALSE]
    /\ UNCHANGED <<lp_stop, lp_exit, tm_last>>
    /\ UNCHANGED <<fvars, hvars, ivars, gvars, pvars, cvars, lvars, tvars, wvars>>

\* CCDLogic.stop_focus: stopRequest = True
StopFocus ==
    /\ lp_stop' = [lp_stop EXCEPT !["ccd"] = TRUE]
    /\ lp_asked' = [lp_asked EXCEPT !["ccd"] = TRUE]
    /\ UNCHANGED <<lp_pending, lp_acq, lp_exit, cc_locked, tm_last>>
    /\ UNCHANGED <<fvars, hvars, ivars, gvars, pvars, cvars, lvars, tvars, wvars>>

\* CCDLogic.focus_loop, run by a queued sigRepeat
FocusLoop ==
    /\ lp_pending["ccd"] > 0
    /\ LET body == FocusLoopBody(lp_stop["ccd"])
           acq == IF body.acquire THEN Acquired(lp_acq["ccd"])
                  ELSE lp_acq["ccd"]
       IN  /\ lp_stop' = [lp_stop EXCEPT !["ccd"] = body.stopRequest]
           /\ cc_locked' = IF body.unlock THEN FALSE ELSE cc_locked
           /\ lp_acq' = [lp_acq EXCEPT !["ccd"] = acq]
           /\ lp_pending' = [lp_pending EXCEPT
                                !["ccd"] = IF body.emit THEN @ ELSE @ - 1]
           /\ lp_exit' = [lp_exit EXCEPT
                             !["ccd"] = IF body.emit THEN @
                                        ELSE ExitKind(acq, lp_asked["ccd"])]
    /\ UNCHANGED <<lp_asked, tm_last>>
    /\ UNCHANGED <<fvars, hvars, ivars, gvars, pvars, cvars, lvars, tvars, wvars>>

\* TemperatureLogic.start_temperature_measurement_loop: sigRepeat.emit()
StartTemperatureLoop ==
    /\ ~ tm_last
    /\ lp_pending["temperature"] < MaxChains
    /\ lp_pending' = [lp_pending EXCEPT !["temperature"] = @ + 1]
    /\ lp_acq' = [lp_acq EXCEPT !["temperature"] = 0]
    /\ lp_asked' = [lp_asked EXCEPT !["temperature"] = FALSE]
    /\ UNCHANGED <<lp_stop, lp_exit, cc_locked, tm_last>>
    /\ UNCHANGED <<fvars, hvars, ivars, gvars, pvars, cvars, lvars, tvars, wvars>>

\* TemperatureLogic.stop_temperature_measurement_loop: stopRequest = True;
\* the user may leave the loop stopped from here on
StopTemperatureLoop ==
    /\ lp_stop' = [lp_stop EXCEPT !["temperature"] = TRUE]
    /\ lp_asked' = [lp_asked EXCEPT !["temperature"] = TRUE]
    /\ tm_last' \in IF tm_last THEN {TRUE} ELSE BOOLEAN
    /\ UNCHANGED <<lp_pending, lp_acq, lp_exit, cc_locked>>
    /\ UNCHANGED <<fvars, hvars, ivars, gvars, pvars, cvars, lvars, tvars, wvars>>

\* TemperatureLogic.temperature_measurement_loop, run by a queued sigRepeat
TemperatureLoop ==
    /\ lp_pending["temperature"] > 0
    /\ LET body == TemperatureLoopBody(lp_stop["temperature"])
           acq == IF body.acquire THEN Acquired(lp_acq["temperature"])
                  ELSE lp_acq["temperature"]
       IN  /\ lp_stop' = [lp_stop EXCEPT !["temperature"] = body.stopRequest]
           /\ lp_acq' = [lp_acq EXCEPT !["temperature"] = acq]
           /\ lp_pending' = [lp_pending EXCEPT
                                !["temperature"] = IF body.emit THEN @ ELSE @ - 1]
           /\ lp_exit' = [lp_exit EXCEPT
                             !["temperature"] =
                                 IF body.emit THEN @
                                 ELSE ExitKind(acq, lp_asked["temperature"])]
    /\ UNCHANGED <<lp_asked, cc_locked, tm_last>>
    /\ UNCHANGED <<fvars, hvars, ivars, gvars, pvars, cvars, lvars, tvars, wvars>>

LoopsNext ==
    \/ StartFocus
    \/ StopFocus
    \/ FocusLoop
    \/ StartTemperatureLoop
    \/ StopTemperatureLoop
    \/ TemperatureLoop

(***************************************************************************)
(* Specifications                                                          *)
(***************************************************************************)
\* the Fhr1000 driver alone
InitFhr == FhrInit /\ HrQuiet /\ I3Quiet /\ Connected /\ LogicQuiet /\ ThreadsQuiet /\ GratingQuiet /\ LoopsQuiet
SpecFhr == InitFhr /\ [][FhrNext]_vars

\* the Hr640 driver and its logic
InitHr == HrInit /\ FhrQuiet /\ I3Quiet /\ Connected /\ LogicQuiet /\ ThreadsQuiet /\ GratingQuiet /\ LoopsQuiet
SpecHr == InitHr /\ [][HrNext]_vars

\* the I300 driver alone
InitI300 == I3Init /\ FhrQuiet /\ HrQuiet /\ Connected /\ LogicQuiet /\ ThreadsQuiet /\ GratingQuiet /\ LoopsQuiet
SpecI300 == InitI300 /\ [][I3Next]_vars

\* the busy-wait methods of the Fhr1000 and Hr640 drivers, called directly
\* activation of drivers whose port may fail to open (at most one port
\* opens), the driver operations, deactivation
InitConnect ==
    /\ FhrQuiet
    /\ HrQuiet
    /\ I3Quiet
    /\ handle = [d \in Drivers |-> "None"]
    /\ mstate = [d \in Drivers |-> "new"]
    /\ port_opens \in {po \in [Drivers -> BOOLEAN] : \E d \in Drivers : ~ po[d]}
    /\ warned = [d \in Drivers |-> FALSE]
    /\ disc = [d \in Drivers |-> "none"]
    /\ autocal \in BOOLEAN
    /\ LogicQuiet
    /\ ThreadsQuiet /\ GratingQuiet /\ LoopsQuiet

ConnectNext ==
    \/ FhrOnActivate
    \/ FhrOnDeactivate
    \/ FhrHandleRaises
    \/ FhrPropagate
    \/ FhrCallMoveToNm
    \/ FhrCallGoto
    \/ FhrCallSlitAbs
    \/ FhrReadSlit
    \/ FhrReadPosition
    \/ FhrBusySteps
    \/ HrOnActivate
    \/ HrOnDeactivate
    \/ HrPropagate
    \/ HrCallMoveToNm
    \/ HrCallGoBusy
    \/ HrBranch
    \/ HrReadLoadReply
    \/ HrReadPositionReply
    \/ HrBusySteps

SpecConnect == InitConnect /\ [][ConnectNext]_vars

\* Hr640Logic before its activation, with any of the calibration files
InitLogic ==
    /\ FhrQuiet
    /\ HrQuiet
    /\ I3Quiet
    /\ Connected
    /\ ThreadsQuiet /\ GratingQuiet /\ LoopsQuiet
    /\ lg_state = "new"
    /\ coeffs = << >>
    /\ cal_file \in CalFiles

SpecLogic == InitLogic /\ [][LogicNext]_vars

\* Fhr1000Logic and I300Logic over their drivers
InitGrating ==
    /\ FhrInit
    /\ I3Init
    /\ HrQuiet
    /\ Connected
    /\ LogicQuiet
    /\ ThreadsQuiet /\ GratingQuiet /\ LoopsQuiet

SpecGrating == InitGrating /\ [][GratingNext]_vars

\* CCDLogic and TemperatureLogic after on_activate
InitLoops ==
    /\ FhrQuiet
    /\ HrQuiet
    /\ I3Quiet
    /\ Connected
    /\ LogicQuiet
    /\ ThreadsQuiet /\ GratingQuiet /\ LoopsQuiet

SpecLoops == InitLoops /\ [][LoopsNext]_vars

\* the event loop of the logic thread delivers every queued sigRepeat
FairSpecLoops == SpecLoops /\ WF_vars(FocusLoop) /\ WF_vars(TemperatureLoop)

\* two threads free to call Hr640Logic
InitThreads ==
    /\ FhrQuiet
    /\ HrQuiet
    /\ I3Quiet
    /\ Connected
    /\ LogicQuiet
    /\ ThreadsQuiet /\ GratingQuiet /\ LoopsQuiet

SpecThreads == InitThreads /\ [][ThreadsNext]_vars

\* the driver methods of Hr640 one by one
InitOps ==
    /\ HrInit
    /\ absolute_position = 500000
    /\ hd_stuck = FALSE
    /\ cal_c0 = 0
    /\ FhrQuiet
    /\ I3Quiet
    /\ Connected
    /\ LogicQuiet
    /\ ThreadsQuiet /\ GratingQuiet /\ LoopsQuiet

OpsNext ==
    \/ HrCallOperation
    \/ HrCallGoBusy
    \/ HrEnterMethod
    \/ HrWriteByte
    \/ HrReadReply
    \/ HrReadLoadReply
    \/ HrReadPositionReply
    \/ HrReadGoReply
    \/ HrReadStatusReply
    \/ HrFinish
    \/ HrReturn
    \/ HrPropagate

SpecOps == InitOps /\ [][OpsNext]_vars

\* the driver methods of Hr640 and the moves of Fhr1000, one call at a time
InitSerial ==
    /\ HrInit
    /\ absolute_position = 500000
    /\ hd_position = 500000
    /\ hd_stuck = FALSE
    /\ cal_c0 = 0
    /\ FhrQuiet
    /\ I3Quiet
    /\ Connected
    /\ LogicQuiet
    /\ ThreadsQuiet /\ GratingQuiet /\ LoopsQuiet

SerialNext ==
    \/ FhrCallGoto
    \/ FhrCallSlitRel
    \/ FhrBusySteps
    \/ HrCallOperation
    \/ HrCallGoBusy
    \/ HrEnterMethod
    \/ HrWriteByte
    \/ HrReadReply
    \/ HrReadLoadReply
    \/ HrReadPositionReply
    \/ HrReadGoReply
    \/ HrReadStatusReply
    \/ HrFinish
    \/ HrReturn
    \/ HrPropagate

SpecSerial == InitSerial /\ [][SerialNext]_vars

\* the conversions
InitPure == FhrQuiet /\ HrQuiet /\ I3Quiet /\ Connected /\ LogicQuiet /\ ThreadsQuiet /\ GratingQuiet /\ LoopsQuiet
SpecPure == InitPure /\ [][PureNext]_vars

BusyInit ==
    /\ FhrInit
    /\ fd_pos = 500000
    /\ HrInit
    /\ absolute_position = 500000
    /\ cal_c0 = 0
    /\ I3Quiet
    /\ Connected
    /\ LogicQuiet
    /\ ThreadsQuiet /\ GratingQuiet /\ LoopsQuiet

BusyNext ==
    \/ FhrCallGoto
    \/ FhrCallSlitRel
    \/ HrCallGoBusy
    \/ FhrBusySteps
    \/ HrBusySteps

SpecBusy == BusyInit /\ [][BusyNext]_vars

\* the thread that runs a call is scheduled until the call ends
FairSpecBusy == SpecBusy /\ WF_vars(FhrBusySteps) /\ WF_vars(HrBusySteps)

(***************************************************************************)
(* Properties                                                              *)
(***************************************************************************)
\* the commands of a log of written move commands
Written(moves) == [k \in 1..Len(moves) |-> [cmd |-> moves[k].cmd, arg |-> moves[k].arg]]

IsPrefix(s, t) == Len(s) <= Len(t) /\ SubSeq(t, 1, Len(s)) = s

\* the steps of the first k relative moves written, added up
RECURSIVE StepsOf(_, _)
StepsOf(moves, k) ==
    IF k = 0 THEN 0 ELSE StepsOf(moves, k - 1) + moves[k].arg

C2_LogicPreMoveThenExactTarget ==
    (h_call = "Hr640Logic.move_to_nm" /\ h_arg < h_abs0) =>
        /\ Len(h_calls) <= 4
        /\ Len(h_calls) >= 1 =>
              h_calls[1].op = "load_target_nm" /\ h_calls[1].arg < h_arg
        /\ Len(h_calls) >= 2 => h_calls[2].op = "go_busy"
        /\ Len(h_calls) >= 3 =>
              h_calls[3].op = "load_target_nm" /\ h_calls[3].arg = h_arg
        /\ Len(h_calls) >= 4 => h_calls[4].op = "go_busy"
        /\ Len(h_gos) >= 1 => h_gos[1] < h_arg
        /\ Len(h_gos) >= 2 => h_gos[2] = h_arg
        /\ h_pc = "ret" => Len(h_calls) = 4 /\ Len(h_gos) = 2

\* the move from 510.0 to 500.0 has returned
C2_Witness ==
    /\ h_call = "Hr640Logic.move_to_nm"
    /\ h_pc = "ret"
    /\ h_abs0 = 510000
    /\ h_arg = 500000
    /\ h_gos = << 499500, 500000 >>

\* C3: Hr640.move_to_nm(w), when the position read is above w, drives the
\* grating first to an intermediate target strictly below the final target
\* and only then to the final target.
C3_HrIntermediateBelowFinal ==
    (h_call = "Hr640.move_to_nm" /\ h_pc = "ret" /\ h_position_now > h_arg) =>
        /\ Len(h_gos) >= 2
        /\ h_gos[1] < h_gos[Len(h_gos)]

\* C4: go_busy, goto_position_nm_busy and move_slit_relative_steps return
\* only when the most recent status reply is the ready byte.
C4_ReturnOnlyAfterReady ==
    /\ (f_pc = "ret"
            /\ f_call \in {"goto_position_nm_busy", "move_slit_relative_steps"})
          => f_answer = FhrReadyByte
    /\ (h_pc = "ret" /\ h_call = "Hr640.go_busy") => h_answer = HrReadyByte

\* C5: with a device that answers busy finitely often and then ready, each
\* call of go_busy, goto_position_nm_busy and move_slit_relative_steps
\* returns.
C5_BusyPollTerminates ==
    /\ (f_call \in {"goto_position_nm_busy", "move_slit_relative_steps"}
            /\ ~fd_stuck) ~> (f_pc = "ret")
    /\ (h_call = "Hr640.go_busy" /\ ~hd_stuck) ~> (h_pc = "ret")

\* a goto_position_nm_busy has returned on ready after a busy answer, and
\* so did the go_busy before it
C5_Witness ==
    /\ f_call = "goto_position_nm_busy"
    /\ f_pc = "ret"
    /\ f_polls >= 2
    /\ f_answer = FhrReadyByte
    /\ h_prev.call = "Hr640.go_busy"
    /\ h_polls >= 2
    /\ h_answer = HrReadyByte

\* C6: with a device that answers busy to every status query, go_busy and
\* goto_position_nm_busy stop polling and return (or raise).
C6_BoundedWaitWhenAlwaysBusy ==
    /\ (f_call = "goto_position_nm_busy" /\ fd_stuck)
          ~> (f_pc \in {"ret", "raised"})
    /\ (h_call = "Hr640.go_busy" /\ hd_stuck) ~> (h_pc \in {"ret", "raised"})

\* C7: a Hr640Logic.move_to_nm(t) entered directly after a move_to_nm(t)
\* that returned enters no driver method, writes no byte and leaves
\* absolute_position (= t) and the device target alone.
C7_LogicMoveIdempotent ==
    (h_call = "Hr640Logic.move_to_nm"
        /\ h_prev = [call |-> "Hr640Logic.move_to_nm", arg |-> h_arg]) =>
        /\ h_calls = << >>
        /\ h_sent = << >>
        /\ h_out = << >>
        /\ absolute_position = h_arg
        /\ absolute_position = h_abs0
        /\ hd_target = h_target0

\* the second of two equal moves has returned, the first having moved
C7_Witness ==
    /\ h_call = "Hr640Logic.move_to_nm"
    /\ h_prev = [call |-> "Hr640Logic.move_to_nm", arg |-> h_arg]
    /\ h_pc = "ret"
    /\ h_target0 = h_arg

\* C8: if the position the device reports equals t, Fhr1000.move_to_nm(t)
\* writes no move command.
C8_FhrNoMoveWhenAtTarget ==
    (f_call = "move_to_nm" /\ f_read = f_arg) => f_moves = << >>

\* C9: Hr640.move_to_nm(w) with the position read equal to w enters neither
\* load_target_nm nor go_busy and leaves the device target unchanged.
C9_HrNoOpWhenAtTarget ==
    (h_call = "Hr640.move_to_nm" /\ h_position_now = h_arg) =>
        /\ \A k \in 1..Len(h_calls) :
              h_calls[k].op \notin {"load_target_nm", "go_busy"}
        /\ h_gos = << >>
        /\ hd_target = h_target0

\* C10: I300.move_to_nm(w) writes one command, the query '<w> NM', and no
\* other; the timeout is 600000 ms when the query is written and while its
\* reply is awaited, and 2000 ms once move_to_nm has returned.
C10_I300SingleBlockingQuery ==
    i_call = "move_to_nm" =>
        /\ Len(i_log) <= 1
        /\ Len(i_log) = 1 =>
              i_log[1] = [arg |-> i_arg, verb |-> "NM", timeout |-> 600000]
        /\ i_pc = "reply" => i_timeout = 600000
        /\ i_pc = "ret" => Len(i_log) = 1 /\ i_timeout = 2000

\* move_to_nm(650.25) has returned
C10_Witness ==
    /\ i_call = "move_to_nm"
    /\ i_pc = "ret"
    /\ i_arg = 650250
    /\ Len(i_log) = 1


C14_SlitOutOfRangeRejected ==
    (f_call = "move_slit_absolute_um" /\ (f_arg < 0 \/ f_arg > 2000)) =>
        /\ f_moves = << >>
        /\ f_pc \in {"slit_read", "ret"}
        /\ f_pc = "ret" => (f_log = << FhrSlitWarning >> /\ fd_slit = f_read)

\* a request above 2000 um has returned with the slit opened before
C14_Witness ==
    /\ f_call = "move_slit_absolute_um"
    /\ f_pc = "ret"
    /\ f_arg = 2002
    /\ f_read = 550
    /\ f_log = << FhrSlitWarning >>
    /\ fd_slit = 550


\* C15: a connect() whose port does not open logs the warning and leaves the
\* handle None; from then on every driver operation that uses the handle
\* (load_speed_bytes and autocalibrate inside on_activate, the moves, go_busy,
\* disconnect) raises AttributeError before it has written anything.
C15_NoHandleNoBytes ==
    /\ \A d \in Drivers :
          (mstate[d] # "new" /\ ~ port_opens[d]) =>
              /\ warned[d]
              /\ handle[d] = "None"
              /\ mstate[d] = "stopped" => disc[d] = "AttributeError"
    /\ (~ port_opens["Hr640"] /\ h_call # "none") =>
          /\ h_pc \in {"next", "write", "raised"}
          /\ h_pc = "raised" => h_error = "AttributeError"
          /\ h_sent = << >>
          /\ Len(h_calls) <= 1
          /\ h_polls = 0
          /\ hd_target = h_target0
    /\ (~ port_opens["Hr640"] /\ h_prev.call # "none") =>
          /\ "error" \in DOMAIN h_prev
          /\ h_prev.error = "AttributeError"
    /\ (~ port_opens["Fhr1000"] /\ f_call # "none"
           /\ ~ (f_call = "on_activate" /\ ~ autocal)) =>
          /\ f_pc \in {"mv_read", "slit_read", "cmd_write", "raised"}
          /\ f_pc = "raised" => f_error = "AttributeError"
          /\ f_moves = << >>
          /\ f_polls = 0
          /\ f_read = -1

\* neither port opened: the speed load of Hr640.on_activate has failed, a
\* later Hr640.move_to_nm has just failed, Fhr1000 was activated without
\* autocalibration and its disconnect has failed
C15_Witness ==
    /\ ~ port_opens["Hr640"] /\ ~ port_opens["Fhr1000"]
    /\ warned["Hr640"] /\ warned["Fhr1000"]
    /\ h_call = "Hr640.move_to_nm"
    /\ h_pc = "raised"
    /\ h_error = "AttributeError"
    /\ h_prev = [call |-> "Hr640.on_activate", arg |-> 0,
                 error |-> "AttributeError"]
    /\ ~ autocal
    /\ mstate["Fhr1000"] = "stopped"
    /\ disc["Fhr1000"] = "AttributeError"


\* C16: an activation of Hr640Logic never installs a calibration curve of
\* fewer than 4 coefficients (loading such a file fails and aborts it).
C16_NoShortCurveInstalled ==
    lg_state = "active" => Len(coeffs) >= 4

\* C18: the calibration round trip of any raw position that converts without
\* an error returns the position to within 0.001 nm.
C18_CalibrationRoundTrip ==
    (p_fn = "calibration_round_trip" /\ p_out.back.error = "none") =>
        p_out.back.nm - p_in \in {-1, 0, 1}


\* C19: whenever Hr640.move_to_nm(w) has issued a go, the target the device
\* held at the last go is wavelength_to_absolute_position(w).
C19_LastGoAtInverseCalibratedTarget ==
    (h_call = "Hr640.move_to_nm" /\ h_gos # << >>) =>
        h_gos[Len(h_gos)] = wavelength_to_absolute_position(cal_c0, h_arg)


\* C20: is_busy() gives False exactly on the ready code (Hr640 98, Fhr1000
\* 122, I300 token 1), True exactly on the busy code (66, 113, token 0), and
\* on every other status neither of the two.
C20_IsBusyByStatusCode ==
    /\ p_fn = "Hr640.is_busy" =>
          /\ p_out = "False" <=> p_in = 98
          /\ p_out = "True" <=> p_in = 66
          /\ p_in \notin {98, 66} => p_out = "None"
    /\ p_fn = "Fhr1000.is_busy" =>
          /\ p_out = "False" <=> p_in = 122
          /\ p_out = "True" <=> p_in = 113
          /\ p_in \notin {122, 113} => p_out = "None"
    /\ p_fn = "I300.is_busy" =>
          /\ p_out = "False" <=> (Len(p_in) >= 2 /\ p_in[2] = Num(1))
          /\ p_out = "True" <=> (Len(p_in) >= 2 /\ p_in[2] = Num(0))
          /\ (Len(p_in) >= 2 /\ p_in[2].num /\ p_in[2].v \notin {0, 1}) =>
                p_out = "None"

C20_Witness ==
    /\ p_fn = "I300.is_busy"
    /\ p_in = << Word, Num(2) >>
    /\ p_out = "None"


\* C17: two threads never both have a command in flight on the serial link
\* of the Hr640: a frame of one and the read of its reply are complete before
\* the other writes the first byte of a frame.
C17_OneCommandInFlight ==
    ~ (t_flight["gui"] /\ t_flight["logic"])


\* C21: whenever neither I300.move_to_nm nor I300.set_grating is in
\* progress, the timeout of the I300 handle is 2000 ms.
C21_TimeoutRestored ==
    i_call \notin {"move_to_nm", "set_grating"} => i_timeout = 2000


\* C22: move_slit_absolute_um(r) with the width read c > r >= 100 writes
\* exactly two relative moves, (r - c)/2 - 50 steps and then +50 steps, the
\* second after a ready reply to the polls of the first; with r > c (r up to
\* 2000) it writes exactly one, of (r - c)/2 steps.
C22_SlitCloseInTwoMoves ==
    (f_call = "move_slit_absolute_um" /\ f_read # -1) =>
        /\ (f_cur > f_arg /\ f_arg >= 100) =>
              /\ IsPrefix(Written(f_moves),
                          << K((f_arg - f_cur) \div 2 - 50), K(50) >>)
              /\ Len(f_moves) = 2 => f_moves[2].after = 122
              /\ f_pc = "ret" => Len(f_moves) = 2
        /\ (f_arg > f_cur /\ f_arg <= 2000) =>
              /\ IsPrefix(Written(f_moves), << K((f_arg - f_cur) \div 2) >>)
              /\ f_pc = "ret" => Len(f_moves) = 1

\* C23: when move_slit_absolute_um(r) with r in 0..2000 has returned, the
\* steps of its relative moves add up to (r - c)/2 for the width c it read,
\* the slit that made them stands at r, and with r = c there was no move.
C23_SlitMovesSumToRequest ==
    (f_call = "move_slit_absolute_um" /\ f_pc = "ret"
        /\ 0 <= f_arg /\ f_arg <= 2000) =>
        /\ 2 * StepsOf(f_moves, Len(f_moves)) = f_arg - f_cur
        /\ fd_slit * 2 = f_arg
        /\ f_arg = f_cur => f_moves = << >>

\* closing from 1100 um to 100 um is over
C23_Witness ==
    /\ f_call = "move_slit_absolute_um"
    /\ f_pc = "ret"
    /\ f_arg = 100
    /\ f_cur = 1100
    /\ Written(f_moves) = << K(-550), K(50) >>

C26_ReadsWhatItWrote ==
    /\ h_pc = "read" => HrReplyBytes(h_op) = Len(h_sent)
    /\ h_pc = "ret" => h_rx = 0


\* C27: the Hr640 driver has slept self.delay since its last write_raw or
\* read_bytes whenever it writes a byte or reads a reply.
C27_DelayBetweenTransportOperations ==
    [][(Len(h_sent') = Len(h_sent) + 1 \/ (h_owed /\ ~ h_owed')) => h_gap]_vars

\* the second status poll of a go_busy is being written
C27_Witness ==
    /\ h_call = "Hr640.go_busy"
    /\ h_op = "is_busy"
    /\ h_polls = 2
    /\ h_sent = << 58, 2 >>
    /\ h_gap

\* C28: a load_target_nm or load_position_nm that raises has written no
\* byte of its frame.
C28_FrameWholeOrNothing ==
    (h_pc = "raised" /\ h_op \in {"load_target_nm", "load_position_nm"}) =>
        h_sent = << >>


\* C29: a forward and an inverse conversion of one session that both give a
\* value evaluate the same coefficients, those loaded at the activation.
C29_OneCoefficientSetPerSession ==
    (/\ p_fn = "calibration_round_trip"
     /\ p_out.fwd.error = "none"
     /\ p_out.back.error = "none") =>
        /\ p_out.fwd_coeffs = p_out.back_coeffs
        /\ p_out.back_coeffs = coeffs

\* the numeric tokens of lines 5-8, in file order
NumericTokens(tokens) ==
    LET nums == SelectSeq(tokens, LAMBDA t : t.num)
    IN  [k \in 1..Len(nums) |-> nums[k].v]

\* C30: for a file with at least four numeric tokens in lines 5-8,
\* get_coefficients_from_file returns exactly the first four of them.
C30_FirstFourCoefficients ==
    (p_fn = "get_coefficients_from_file" /\ Len(NumericTokens(p_in)) >= 4) =>
        p_out = SubSeq(NumericTokens(p_in), 1, 4)


\* the device targets of the go_busy calls that have returned: the go frames
\* written so far, but for that of a go_busy still polling
ReturnedGoTargets ==
    LET running == /\ h_script # << >>
                   /\ Head(h_script).op = "go_busy"
                   /\ h_pc # "next"
                   /\ \/ h_op = "is_busy"
                      \/ h_op = "go_busy" /\ h_pc = "read"
    IN  {h_gos[k] : k \in 1..(Len(h_gos) - IF running THEN 1 ELSE 0)}

\* C31: during Hr640Logic.move_to_nm absolute_position is its value before
\* the call or a target that a returned go_busy drove the grating to.
C31_AbsolutePositionOnlyAfterItsMove ==
    h_call = "Hr640Logic.move_to_nm" =>
        \/ absolute_position = h_abs0
        \/ absolute_position \in ReturnedGoTargets


\* C32: when move_grating_nm of Fhr1000Logic or I300Logic returns,
\* _current_wavelength_nm is what the device answered after the driver's
\* move_to_nm had returned, with the grating at rest where the move ended.
C32_CurrentWavelengthReadAfterMove ==
    /\ fl_pc = "ret" => ~ fl_moving /\ fl_cur = fd_pos
    /\ il_pc = "ret" => il_cur = id_pos


\* [58, 2, opcode, n, n payload bytes, 58], or the busy-check frame
WellFormedFrame(frame) ==
    /\ Len(frame) >= 5
    /\ frame[1] = 58
    /\ frame[2] = 2
    /\ frame[Len(frame)] = 58
    /\ \/ frame = << 58, 2, 0, 0, 63, 58 >>
       \/ /\ frame[3] \in {65, 84, 97, 116, 71, 83, 115}
          /\ frame[4] = Len(frame) - 5
          /\ \A k \in 5..(Len(frame) - 1) : frame[k] \in 0..255

\* C33: the bytes a driver method of Hr640 has written, once it writes no
\* more, are one frame [58, 2, opcode, n, n payload bytes, 58] or the
\* busy-check frame.
C33_FramesWellFormed ==
    (h_pc # "write" /\ h_sent # << >>) => WellFormedFrame(h_sent)


\* C34: the run of focus_loop that follows a stop_focus called while the
\* loop was running acquires nothing, leaves no sigRepeat queued, unlocks
\* module_state and resets stopRequest.
C34_StopEndsFocusLoop ==
    [][(/\ lp_asked["ccd"]
        /\ lp_pending["ccd"] > 0
        /\ \/ lp_acq'["ccd"] # lp_acq["ccd"]
           \/ lp_pending'["ccd"] # lp_pending["ccd"]) =>
           /\ lp_acq'["ccd"] = lp_acq["ccd"]
           /\ lp_pending'["ccd"] = 0
           /\ ~ cc_locked'
           /\ ~ lp_stop'["ccd"]]_vars

\* the focus loop has acquired, was asked to stop and has returned
C34_Witness ==
    /\ lp_exit["ccd"] = "acquired"
    /\ lp_asked["ccd"]
    /\ lp_acq["ccd"] > 0
    /\ lp_pending["ccd"] = 0
    /\ ~ cc_locked
    /\ ~ lp_stop["ccd"]

\* C35: no loop of CCDLogic or TemperatureLogic returns without one
\* acquisition since its start, unless the stop came after that start.
C35_StartAcquiresOnce ==
    \A m \in Loops : lp_exit[m] # "empty"

\* C36: once the temperature loop is stopped for good, the queued runs of
\* its slot come to an end.
C36_StopEndsEveryChain ==
    tm_last ~> (lp_pending["temperature"] = 0)

=============================================================================
